---- MODULE Spec2Model ----
(***************************************************************************)
(* Model of the simulation core of neural-coding.com:                      *)
(*   - the three plasticity rules of the Synaptic Weight Visualizer        *)
(*     (stdp_learning, hebbian_learning, bcm_learning),                    *)
(*   - its three spike generators and the "Run Simulation" block, which    *)
(*     draw from numpy's process-global random generator,                  *)
(*   - the two LIF integrators (simulate_lif of the LIF-Explorer and       *)
(*     lif_simulate of the compute API), from inside the loop and from     *)
(*     the call with its request validation,                               *)
(*   - hebb_step of the compute API and the two tools of the playground    *)
(*     script (local LIF loop with its API payload, hebb loop),            *)
(*   - script runs that overlap in one server process.                     *)
(*                                                                         *)
(* Numbers.  The code computes in floating point; the model computes in    *)
(* exact fixed point and does not model rounding.                          *)
(*   a trace x            is stored as  x * TraceOne                       *)
(*   a weight w           is stored as  w * WOne                           *)
(*   eta, theta           are stored as numerators over CoefDen            *)
(*   exp(-dt/tau)         is stored as a numerator over DecayDen           *)
(* TraceOne is DecayDen^MaxDecays, so that every decay of a run divides    *)
(* exactly.                                                                *)
(***************************************************************************)
EXTENDS Integers, Sequences, FiniteSets, TLC

\* ------------------------------------------------------------------ bounds
\* longest run of the dense input family (all spike matrices)
MaxSteps == 2
\* run length of the sparse input family (one neuron each side, at most one
\* spike per train)
LongSteps == 10
\* denominator of the decay factors exp(-dt/tau)
DecayDen == 4
\* denominator of eta and theta
CoefDen == 2

\* the daily pipeline: longest title, the slug's cut (80 in the code),
\* MAX_ITEMS (its default), and the number of runs of main
TitleLen == 2
SlugCut == 5
MaxItems == 2
PipelineRuns == 2

\* population sizes of the dense input family
NeuronCounts == {1, 2}

\* number of states of the random generator
RngMod == 16
\* a uniform draw is one of 0/UDen, ..., (UDen-1)/UDen; probabilities and the
\* correlation are numerators over UDen
UDen == 4

\* hebb_step and the hebb tool: pre, post and eta are numerators over HebbDen
HebbDen == 2
\* iterations of the loop of the hebb tool
HebbSteps == 2

\* most Euler steps of a LIF run
MaxLifSteps == 3
\* time constants are 1, 2, ..., 2^TauBits
TauBits == 2

RECURSIVE Pow(_, _)
Pow(b, e) == IF e = 0 THEN 1 ELSE b * Pow(b, e - 1)

MaxDecays == IF LongSteps > MaxSteps THEN LongSteps ELSE MaxSteps
TraceOne == Pow(DecayDen, MaxDecays)
WOne == TraceOne * CoefDen * CoefDen
\* the weight 1/CoefDen
WStep == TraceOne * CoefDen

\* LIF potentials: a potential x is stored as x * LifOne, LifOne a power of
\* the largest time constant, so that every Euler step divides exactly
MaxTau == Pow(2, TauBits)
LifOne == Pow(MaxTau, MaxLifSteps)
\* times: a time x is stored as x * TimeOne, TimeOne = MaxLifSteps!
RECURSIVE Factorial(_)
Factorial(n) == IF n <= 1 THEN 1 ELSE n * Factorial(n - 1)
TimeOne == Factorial(MaxLifSteps)

Min(a, b) == IF a < b THEN a ELSE b
Max(a, b) == IF a > b THEN a ELSE b

\* ------------------------------------------------------------------ state
VARIABLES
    \* ---- one call of stdp_learning / hebbian_learning / bcm_learning
    pre_spikes,     \* [n_steps, n_neurons, at]: at[t+1][i] is pre_spikes[t, i-1]
    post_spikes,
    w_init,         \* w_init[i][j]
    par,            \* the scalar arguments and the rule that is called
    W,              \* the working matrix
    W_history,      \* the list of snapshots
    pre_trace,
    post_trace,
    post_activity,
    t,              \* loop index of `for t in range(n_steps)`
    pc,             \* "loop" | "returned" | "idle"
    \* ---- one call of simulate_lif (LIF-Explorer) or lif_simulate (API)
    lif,            \* the arguments, and n
    lif_t,          \* the time axis t
    v,              \* the potential trace, v[k+1] is v[k] of the code
    spikes,         \* simulate_lif: 0/1 per step; lif_simulate: list of times
    V,              \* lif_simulate: the running potential
    kstep,          \* the step k the loop is about to run
    lpc,            \* "loop" | "returned" | "idle"
    \* ---- the Synaptic Weight Visualizer script, one server process
    rng,            \* state of numpy's process-global generator (np.random)
    session_state,  \* st.session_state: the keys stored by the last run
    last_run,       \* history: sidebar values, generator state at entry and
                    \* the draws of the latest "Run Simulation" click
    prev_run,       \* history: the same for the click before it
    \* ---- the Neural Coding Playground (streamlit_app.py) and the hebb API
    playground,     \* the LIF tool: slider values, local trace, shown payload
    hebb,           \* one hebb_step request, or one run of the hebb tool
    \* ---- script runs of the visualizer that overlap in one process
    sessions,       \* per session: position in the script and what it drew
    \* ---- one call of a learning function, its arrays as objects
    mem,            \* the arrays by identity, and which name refers to which
    \* ---- one browser session of the visualizer, script run by script run
    page,           \* the sidebar's values and what the last script run showed
    \* ---- the daily pipeline (run_daily.py)
    pipeline        \* the posts directory and main's position in its loop

learnVars == <<pre_spikes, post_spikes, w_init, par, W, W_history,
               pre_trace, post_trace, post_activity, t, pc>>
lifVars == <<lif, lif_t, v, spikes, V, kstep, lpc>>
vizVars == <<rng, session_state, last_run, prev_run>>
appVars == <<playground, hebb, sessions>>
extVars == <<mem, page, pipeline>>

vars == <<learnVars, lifVars, vizVars, appVars, extVars>>

\* ------------------------------------------------- numpy helpers (pure)
\* np.clip(x, lo, hi) = minimum(maximum(x, lo), hi), elementwise
ClipNoUpper(x, lo, hi) == Max(x, lo)
Clip(x, lo, hi) == Min(Max(x, lo), hi)

ClipMatrix(M, lo, hi) ==
    [i \in DOMAIN M |-> [j \in DOMAIN M[i] |-> Clip(M[i][j], lo, hi)]]

\* np.zeros(n)
Ones(n) == [i \in 1..n |-> TraceOne]
Zeros(n) == [i \in 1..n |-> 0]

\* tr *= np.exp(-dt / tau), the factor being num/DecayDen
DecayNone(tr, num) == tr
Decay(tr, num) == [n \in DOMAIN tr |-> (tr[n] * num) \div DecayDen]

\* pre_spikes[t].sum()
RECURSIVE RowSumFrom(_, _)
RowSumFrom(row, i) == IF i > Len(row) THEN 0 ELSE row[i] + RowSumFrom(row, i + 1)
RowSum(row) == RowSumFrom(row, 1)

\* ------------------------------------------------------- stdp_learning
RECURSIVE PreSpikeLoopAllRows(_, _, _, _, _, _)
PreSpikeLoopAllRows(i, Wc, ptr, spk, qtr, p) ==
    IF i > Len(spk) THEN [W |-> Wc, pre_trace |-> ptr]
    ELSE IF spk[i] > 0
         THEN PreSpikeLoopAllRows(i + 1,
                  [r \in DOMAIN Wc |-> [j \in DOMAIN Wc[r] |->
                       Wc[r][j] - p.eta * p.a_minus * qtr[j] * CoefDen]],
                  [ptr EXCEPT ![i] = @ + TraceOne],
                  spk, qtr, p)
         ELSE PreSpikeLoopAllRows(i + 1, Wc, ptr, spk, qtr, p)
\* `for i in pre_spike_idx:` in index order, from neuron i on.
\* Returns the working matrix and the pre trace after the loop.
RECURSIVE PreSpikeLoop(_, _, _, _, _, _)
PreSpikeLoop(i, Wc, ptr, spk, qtr, p) ==
    IF i > Len(spk) THEN [W |-> Wc, pre_trace |-> ptr]
    ELSE IF spk[i] > 0
         THEN PreSpikeLoop(i + 1,
                  [Wc EXCEPT ![i] = [j \in DOMAIN Wc[i] |->
                       Wc[i][j] - p.eta * p.a_minus * qtr[j] * CoefDen]],
                  [ptr EXCEPT ![i] = @ + TraceOne],
                  spk, qtr, p)
         ELSE PreSpikeLoop(i + 1, Wc, ptr, spk, qtr, p)

\* `for j in post_spike_idx:` in index order, from neuron j on.
RECURSIVE PostSpikeLoop(_, _, _, _, _, _)
PostSpikeLoop(j, Wc, qtr, spk, ptr, p) ==
    IF j > Len(spk) THEN [W |-> Wc, post_trace |-> qtr]
    ELSE IF spk[j] > 0
         THEN PostSpikeLoop(j + 1,
                  [i \in DOMAIN Wc |-> [Wc[i] EXCEPT ![j] =
                       @ + p.eta * p.a_plus * ptr[i] * CoefDen]],
                  [qtr EXCEPT ![j] = @ + TraceOne],
                  spk, ptr, p)
         ELSE PostSpikeLoop(j + 1, Wc, qtr, spk, ptr, p)

\* One iteration of the loop body of stdp_learning, up to the clip.
StdpIterPostFirst(Wc, ptr, qtr, pre, post, p) ==
    LET dp == Decay(ptr, p.decay_plus)
        dq == Decay(qtr, p.decay_minus)
        b  == PostSpikeLoop(1, Wc, dq, post, dp, p)
        a  == PreSpikeLoop(1, b.W, dp, pre, b.post_trace, p)
    IN  [W |-> ClipMatrix(a.W, p.w_min, p.w_max),
         pre_trace |-> a.pre_trace, post_trace |-> b.post_trace]
StdpIterClipBetween(Wc, ptr, qtr, pre, post, p) ==
    LET dp == Decay(ptr, p.decay_plus)
        dq == Decay(qtr, p.decay_minus)
        a  == PreSpikeLoop(1, Wc, dp, pre, dq, p)
        b  == PostSpikeLoop(1, ClipMatrix(a.W, p.w_min, p.w_max), dq, post,
                            a.pre_trace, p)
    IN  [W |-> ClipMatrix(b.W, p.w_min, p.w_max),
         pre_trace |-> a.pre_trace, post_trace |-> b.post_trace]
StdpIterDecayAfterPre(Wc, ptr, qtr, pre, post, p) ==
    LET a  == PreSpikeLoop(1, Wc, ptr, pre, qtr, p)
        dp == Decay(a.pre_trace, p.decay_plus)
        dq == Decay(qtr, p.decay_minus)
        b  == PostSpikeLoop(1, a.W, dq, post, dp, p)
    IN  [W |-> ClipMatrix(b.W, p.w_min, p.w_max),
         pre_trace |-> dp, post_trace |-> b.post_trace]
StdpIter(Wc, ptr, qtr, pre, post, p) ==
    LET dp == Decay(ptr, p.decay_plus)
        dq == Decay(qtr, p.decay_minus)
        a  == PreSpikeLoop(1, Wc, dp, pre, dq, p)
        b  == PostSpikeLoop(1, a.W, dq, post, a.pre_trace, p)
    IN  [W |-> ClipMatrix(b.W, p.w_min, p.w_max),
         pre_trace |-> a.pre_trace, post_trace |-> b.post_trace]

\* ---------------------------------------------------- hebbian_learning
\* eta * np.outer(pre_spikes[t], post_spikes[t])
HebbDWPreOnly(pre, post, p) ==
    [i \in 1..Len(pre) |-> [j \in 1..Len(post) |->
        p.eta * pre[i] * TraceOne * CoefDen]]
HebbDW(pre, post, p) ==
    [i \in 1..Len(pre) |-> [j \in 1..Len(post) |->
        p.eta * pre[i] * post[j] * TraceOne * CoefDen]]

MatAdd(A, B) == [i \in DOMAIN A |-> [j \in DOMAIN A[i] |-> A[i][j] + B[i][j]]]

\* the gate `pre_spikes[t].sum() > 0 and post_spikes[t].sum() > 0`
GateEither(pre, post) == RowSum(pre) > 0 \/ RowSum(post) > 0
Gate(pre, post) == RowSum(pre) > 0 /\ RowSum(post) > 0

HebbIter(Wc, pre, post, p) ==
    IF Gate(pre, post)
    THEN ClipMatrix(MatAdd(Wc, HebbDW(pre, post, p)), p.w_min, p.w_max)
    ELSE Wc

\* -------------------------------------------------------- bcm_learning
\* phi = post_spikes[t] * (post_spikes[t] - theta); dW = eta * outer(pre, phi)
BcmDWLinear(pre, post, p) ==
    [i \in 1..Len(pre) |-> [j \in 1..Len(post) |->
        p.eta * pre[i] * (post[j] * CoefDen - p.theta) * TraceOne]]
BcmDW(pre, post, p) ==
    [i \in 1..Len(pre) |-> [j \in 1..Len(post) |->
        p.eta * pre[i] * (post[j] * (post[j] * CoefDen - p.theta)) * TraceOne]]

BcmIterSliding(Wc, pre, post, p) ==
    IF Gate(pre, post)
    THEN ClipMatrix(MatAdd(Wc, BcmDW(pre, post,
             [p EXCEPT !.theta = (p.theta * p.decay_avg) \div DecayDen])),
             p.w_min, p.w_max)
    ELSE Wc
BcmIter(Wc, pre, post, p) ==
    IF Gate(pre, post)
    THEN ClipMatrix(MatAdd(Wc, BcmDW(pre, post, p)), p.w_min, p.w_max)
    ELSE Wc

\* post_activity *= exp(-dt/tau_avg); post_activity += post_spikes[t]
BcmActivity(act, post, p) ==
    [j \in DOMAIN act |-> Decay(act, p.decay_avg)[j] + post[j] * TraceOne]

\* W = np.copy(w_init); W_history = [W.copy()]
FirstHistoryClipped(w, p) == <<ClipMatrix(w, p.w_min, p.w_max)>>
FirstHistory(w, p) == <<w>>

\* ------------------------------------------------------ input families
Rows(n) == [1..n -> {0, 1}]
SpikeMatrices(steps, n) ==
    {[n_steps |-> steps, n_neurons |-> n, at |-> a] : a \in [1..steps -> Rows(n)]}

\* a train of one neuron with no spike, or one spike at step k
SingleSpike(steps, k) ==
    [n_steps |-> steps, n_neurons |-> 1,
     at |-> [s \in 1..steps |-> <<IF s = k + 1 THEN 1 ELSE 0>>]]
SparseTrains(steps) == {SingleSpike(steps, k) : k \in -1..(steps - 1)}

Uniform(n, m, x) == [i \in 1..n |-> [j \in 1..m |-> x]]
\* entries 0, 1/CoefDen, 2/CoefDen, ... by position
Graded(n, m) == [i \in 1..n |-> [j \in 1..m |-> ((i - 1) * m + (j - 1)) * WStep]]
WInits(n, m) == {Uniform(n, m, 0 - WOne), Graded(n, m)}

\* [w_min, w_max]: wide, degenerate, and inverted
BoundPairs == {<<0 - WOne, WOne>>, <<0, WStep>>, <<0, 0>>, <<WStep, 0>>}

NoRule == [rule |-> "none", eta |-> 0, a_plus |-> 0, a_minus |-> 0,
           decay_plus |-> 0, decay_minus |-> 0, decay_avg |-> 0, theta |-> 0,
           w_min |-> 0, w_max |-> 0]

\* A_plus = 1, A_minus = 2; the decay factors are d[1]/DecayDen, d[2]/DecayDen
StdpPars(b, decays) ==
    {[NoRule EXCEPT !.rule = "STDP", !.eta = 1, !.a_plus = 1, !.a_minus = 2,
                    !.decay_plus = d[1], !.decay_minus = d[2],
                    !.w_min = b[1], !.w_max = b[2]] : d \in decays}
HebbPars(b) ==
    {[NoRule EXCEPT !.rule = "Hebbian", !.eta = 1, !.w_min = b[1], !.w_max = b[2]]}
BcmPars(b) ==
    {[NoRule EXCEPT !.rule = "BCM", !.eta = 1, !.theta = th, !.decay_avg = DecayDen - 1,
                    !.w_min = b[1], !.w_max = b[2]] :
        th \in {CoefDen - 1, CoefDen, CoefDen + 1}}

\* --------------------------------------------------- the call, stepwise
\* Entry of the function: copies, zeroed traces, first snapshot.
LearnEntry(pre, post, w, p) ==
    /\ pre_spikes = pre
    /\ post_spikes = post
    /\ w_init = w
    /\ par = p
    /\ W = w
    /\ W_history = FirstHistory(w, p)
    /\ pre_trace = Zeros(pre.n_neurons)
    /\ post_trace = Zeros(post.n_neurons)
    /\ post_activity = Zeros(post.n_neurons)
    /\ t = 0
    /\ pc = "loop"

IdleLearn ==
    /\ pre_spikes = [n_steps |-> 0, n_neurons |-> 0, at |-> <<>>]
    /\ post_spikes = [n_steps |-> 0, n_neurons |-> 0, at |-> <<>>]
    /\ w_init = <<>>
    /\ par = NoRule
    /\ W = <<>>
    /\ W_history = <<>>
    /\ pre_trace = <<>>
    /\ post_trace = <<>>
    /\ post_activity = <<>>
    /\ t = 0
    /\ pc = "idle"

IdleLif ==
    /\ lif = [fn |-> "none"]
    /\ lif_t = <<>>
    /\ v = <<>>
    /\ spikes = <<>>
    /\ V = 0
    /\ kstep = 0
    /\ lpc = "idle"

IdleViz ==
    /\ rng = 0
    /\ session_state = [stored |-> FALSE]
    /\ last_run = [ran |-> FALSE]
    /\ prev_run = [ran |-> FALSE]

IdleApp ==
    /\ playground = [ran |-> FALSE]
    /\ hebb = [fn |-> "none"]
    /\ sessions = <<>>

IdleExt ==
    /\ mem = [pc |-> "idle"]
    /\ page = [loaded |-> FALSE]
    /\ pipeline = [pc |-> "idle"]

InitLearn ==
    /\ IdleExt
    /\ IdleLif
    /\ IdleViz
    /\ IdleApp
    /\ \E steps \in 0..MaxSteps, n \in NeuronCounts, m \in NeuronCounts :
       \E pre \in SpikeMatrices(steps, n), post \in SpikeMatrices(steps, m) :
       \E w \in WInits(n, m), b \in BoundPairs :
       \E p \in StdpPars(b, {<<3, 1>>}) \cup HebbPars(b) \cup BcmPars(b) :
           LearnEntry(pre, post, w, p)

\* Row t of post_spikes exists.  The loops run over the rows of pre_spikes
\* and index post_spikes with the same t.
PostRowExists == t < post_spikes.n_steps

StdpStep ==
    /\ pc = "loop"
    /\ par.rule = "STDP"
    /\ t < pre_spikes.n_steps
    /\ PostRowExists
    /\ LET r == StdpIter(W, pre_trace, post_trace,
                         pre_spikes.at[t + 1], post_spikes.at[t + 1], par)
       IN  /\ W' = r.W
           /\ pre_trace' = r.pre_trace
           /\ post_trace' = r.post_trace
           /\ W_history' = Append(W_history, r.W)
    /\ t' = t + 1
    /\ UNCHANGED <<pre_spikes, post_spikes, w_init, par, post_activity, pc>>
    /\ UNCHANGED <<lifVars, vizVars, appVars, extVars>>

\* `pre_spikes[t].sum() > 0 and post_spikes[t].sum() > 0` reads post_spikes[t]
\* only when the left operand is true
HebbStep ==
    /\ pc = "loop"
    /\ par.rule = "Hebbian"
    /\ t < pre_spikes.n_steps
    /\ PostRowExists \/ RowSum(pre_spikes.at[t + 1]) = 0
    /\ W' = IF RowSum(pre_spikes.at[t + 1]) = 0 THEN W
            ELSE HebbIter(W, pre_spikes.at[t + 1], post_spikes.at[t + 1], par)
    /\ W_history' = Append(W_history, W')
    /\ t' = t + 1
    /\ UNCHANGED <<pre_spikes, post_spikes, w_init, par, pre_trace, post_trace,
                   post_activity, pc>>
    /\ UNCHANGED <<lifVars, vizVars, appVars, extVars>>

BcmStep ==
    /\ pc = "loop"
    /\ par.rule = "BCM"
    /\ t < pre_spikes.n_steps
    /\ PostRowExists
    /\ post_activity' = BcmActivity(post_activity, post_spikes.at[t + 1], par)
    /\ W' = BcmIter(W, pre_spikes.at[t + 1], post_spikes.at[t + 1], par)
    /\ W_history' = Append(W_history, W')
    /\ t' = t + 1
    /\ UNCHANGED <<pre_spikes, post_spikes, w_init, par, pre_trace, post_trace, pc>>
    /\ UNCHANGED <<lifVars, vizVars, appVars, extVars>>

\* return np.array(W_history)
LearnReturn ==
    /\ pc = "loop"
    /\ t = pre_spikes.n_steps
    /\ pc' = "returned"
    /\ UNCHANGED <<pre_spikes, post_spikes, w_init, par, W, W_history,
                   pre_trace, post_trace, post_activity, t>>
    /\ UNCHANGED <<lifVars, vizVars, appVars, extVars>>

\* post_spikes[t] past the last row of post_spikes: IndexError out of the
\* loop body, the locals are dropped and nothing is returned
LearnIndexError ==
    /\ pc = "loop"
    /\ t < pre_spikes.n_steps
    /\ ~PostRowExists
    /\ par.rule = "Hebbian" => RowSum(pre_spikes.at[t + 1]) > 0
    /\ pc' = "raised"
    /\ UNCHANGED <<pre_spikes, post_spikes, w_init, par, W, W_history,
                   pre_trace, post_trace, post_activity, t>>
    /\ UNCHANGED <<lifVars, vizVars, appVars, extVars>>

NextLearn == StdpStep \/ HebbStep \/ BcmStep \/ LearnReturn

SpecLearn == InitLearn /\ [][NextLearn]_vars

\* Calls whose spike matrices differ in their number of rows; w_init has the
\* shape (n_pre, n_post).
InitMismatch ==
    /\ IdleExt
    /\ IdleLif
    /\ IdleViz
    /\ IdleApp
    /\ \E sp \in 0..MaxSteps, sq \in 0..MaxSteps, n \in NeuronCounts, m \in NeuronCounts :
       \E pre \in SpikeMatrices(sp, n), post \in SpikeMatrices(sq, m) :
       \E p \in StdpPars(<<0 - WOne, WOne>>, {<<3, 1>>})
                  \cup HebbPars(<<0 - WOne, WOne>>)
                  \cup {q \in BcmPars(<<0 - WOne, WOne>>) : q.theta = CoefDen - 1} :
           /\ sp # sq
           /\ LearnEntry(pre, post, Graded(n, m), p)

NextMismatch == StdpStep \/ HebbStep \/ BcmStep \/ LearnIndexError \/ LearnReturn

SpecMismatch == InitMismatch /\ [][NextMismatch]_vars

\* The sparse family: one neuron each side, at most one spike per train, a
\* run of LongSteps steps from w_init = 0 inside [0, 1] or [-1, 1], STDP only.
InitSparse ==
    /\ IdleExt
    /\ IdleLif
    /\ IdleViz
    /\ IdleApp
    /\ \E pre \in SparseTrains(LongSteps), post \in SparseTrains(LongSteps) :
       \E b \in {<<0, WOne>>, <<0 - WOne, WOne>>} :
       \E p \in StdpPars(b, {<<2, 2>>, <<3, 1>>}) :
           LearnEntry(pre, post, Uniform(1, 1, 0), p)

NextSparse == StdpStep \/ LearnReturn

SpecSparse == InitSparse /\ [][NextSparse]_vars

\* ============================================================ LIF
\* int(np.ceil(T / dt)) and int(np.floor(t_max / dt)) for positive arguments
CeilDiv(a, b) == (a + b - 1) \div b
FloorDiv(a, b) == a \div b

\* np.arange(n) * dt
Arange(n, dt) == [i \in 1..n |-> (i - 1) * dt * TimeOne]
\* np.linspace(0.0, t_max, n): step t_max / (n - 1), the single point 0.0
\* when n = 1
Linspace(t_max, n) ==
    [i \in 1..n |-> IF n = 1 THEN 0 ELSE ((i - 1) * t_max * TimeOne) \div (n - 1)]

\* simulate_lif: dv = alpha * (-(v[k-1] - v_rest) + i_dc) + noise,
\* alpha = dt / tau; noise is noise_sigma * sqrt(dt) * randn()
UiEulerNoLeak(vprev, a, noise) ==
    vprev + (a.dt * a.i_dc) \div a.tau + noise
UiEuler(vprev, a, noise) ==
    vprev + (a.dt * ((0 - (vprev - a.v_rest)) + a.i_dc)) \div a.tau + noise

\* lif_simulate: dV = (-(V - V_rest) / (R * C) + I / C) * dt
ApiEuler(Vprev, a) ==
    Vprev + ((0 - (Vprev - a.V_rest)) \div (a.R * a.C) + a.I \div a.C) * a.dt

\* the test `>= V_th` of both loops
CrossesStrictly(x, th) == x > th
Crosses(x, th) == x >= th

\* what the step stores at index kstep: the reset value on a crossing
StoredCrossing(x, th, reset) == x
Stored(x, th, reset) == IF Crosses(x, th) THEN reset ELSE x

\* the values randn() contributes, scaled by noise_sigma * sqrt(dt)
NoiseTerms(a) == IF a.noise_sigma = 0 THEN {0} ELSE {0 - LifOne, 0, LifOne}

\* arguments: potentials in whole units, time constants powers of two
Taus == {Pow(2, e) : e \in 0..TauBits}
\* R * C ranges over Taus
Resistances == {1, 2}
Capacitances == {1, Pow(2, TauBits - 1)}
\* <<dt, duration>>: the duration a multiple of dt or not, at most
\* MaxLifSteps Euler steps
Durations == {<<1, MaxLifSteps>>, <<2, 2 * MaxLifSteps - 1>>, <<2, 2 * MaxLifSteps - 2>>}
UiArgs ==
    {[fn |-> "simulate_lif", tau |-> tau, dt |-> d[1], T |-> d[2],
      v_rest |-> vr * LifOne, v_reset |-> vs * LifOne, v_th |-> vt * LifOne,
      i_dc |-> i * LifOne, noise_sigma |-> ns] :
        tau \in Taus, d \in Durations,
        vr \in {0, 2}, vs \in {0, 0 - 1}, vt \in {1, 2}, i \in {0 - 1, 1, 3},
        ns \in {0, 1}}
ApiArgs ==
    {[fn |-> "lif_simulate", R |-> R, C |-> C, dt |-> d[1], t_max |-> d[2],
      V_rest |-> vr * LifOne, V_reset |-> vs * LifOne, V_th |-> vt * LifOne,
      I |-> i * LifOne] :
        R \in Resistances, C \in Capacitances, d \in Durations,
        vr \in {0, 2}, vs \in {0, 0 - 1}, vt \in {1, 2}, i \in {0 - 1, 1, 2}}

\* simulate_lif up to the loop: n, t, v = zeros with v[0] = v_rest, spikes
UiStart(a) ==
    LET n == CeilDiv(a.T, a.dt)
    IN  [lif |-> [a EXCEPT !.fn = "simulate_lif"] @@ [n |-> n],
         lif_t |-> Arange(n, a.dt),
         v |-> [i \in 1..n |-> IF i = 1 THEN a.v_rest ELSE 0],
         spikes |-> [i \in 1..n |-> 0],
         V |-> 0, kstep |-> 1, lpc |-> "loop"]

\* lif_simulate up to the loop: n, t, v = empty_like(t) with v[0] = V_rest.
\* The unwritten cells of np.empty_like hold whatever the allocator left.
ApiStart(a, junk) ==
    LET n == FloorDiv(a.t_max, a.dt) + 1
    IN  [lif |-> a @@ [n |-> n],
         lif_t |-> Linspace(a.t_max, n),
         v |-> [i \in 1..n |-> IF i = 1 THEN a.V_rest ELSE junk],
         spikes |-> <<>>,
         V |-> a.V_rest, kstep |-> 1, lpc |-> "loop"]

\* the call ended before its loop: nothing was allocated or returned
LifStopped(a, how) ==
    [lif |-> a, lif_t |-> <<>>, v |-> <<>>, spikes |-> <<>>,
     V |-> 0, kstep |-> 0, lpc |-> how]

LifAt(s) ==
    /\ lif = s.lif
    /\ lif_t = s.lif_t
    /\ v = s.v
    /\ spikes = s.spikes
    /\ V = s.V
    /\ kstep = s.kstep
    /\ lpc = s.lpc

UiEntry(a) == LifAt(UiStart(a))
ApiEntry(a, junk) == LifAt(ApiStart(a, junk))

\* contents of the cells np.empty_like leaves unwritten
Junk == {0, 7 * LifOne}

InitLif ==
    /\ IdleExt
    /\ IdleLearn
    /\ IdleViz
    /\ IdleApp
    /\ \/ \E a \in UiArgs : UiEntry(a)
       \/ \E a \in ApiArgs, junk \in Junk : ApiEntry(a, junk)

\* one iteration of `for k in range(1, n)` of simulate_lif
UiLifStep ==
    /\ lpc = "loop"
    /\ lif.fn = "simulate_lif"
    /\ kstep < lif.n
    /\ \E noise \in NoiseTerms(lif) :
        LET x == UiEuler(v[kstep], lif, noise)
        IN  /\ v' = [v EXCEPT ![kstep + 1] = Stored(x, lif.v_th, lif.v_reset)]
            /\ spikes' = [spikes EXCEPT ![kstep + 1] = IF Crosses(x, lif.v_th) THEN 1 ELSE @]
    /\ kstep' = kstep + 1
    /\ UNCHANGED <<lif, lif_t, V, lpc>>
    /\ UNCHANGED <<learnVars, vizVars, appVars, extVars>>

\* one iteration of `for i in range(1, n)` of lif_simulate
ApiLifStep ==
    /\ lpc = "loop"
    /\ lif.fn = "lif_simulate"
    /\ kstep < lif.n
    /\ LET x == ApiEuler(V, lif)
       IN  /\ V' = Stored(x, lif.V_th, lif.V_reset)
           /\ v' = [v EXCEPT ![kstep + 1] = V']
           /\ spikes' = IF Crosses(x, lif.V_th) THEN Append(spikes, lif_t[kstep + 1]) ELSE spikes
    /\ kstep' = kstep + 1
    /\ UNCHANGED <<lif, lif_t, lpc>>
    /\ UNCHANGED <<learnVars, vizVars, appVars, extVars>>

\* return t, v, spikes / return LIFResponse(...)
LifReturn ==
    /\ lpc = "loop"
    /\ kstep = lif.n
    /\ lpc' = "returned"
    /\ UNCHANGED <<lif, lif_t, v, spikes, V, kstep>>
    /\ UNCHANGED <<learnVars, vizVars, appVars, extVars>>

NextLif == UiLifStep \/ ApiLifStep \/ LifReturn

SpecLif == InitLif /\ [][NextLif]_vars

\* ------------------------------------- the two integrators, from the call
\* int(np.ceil(T / dt)) for dt of either sign, dt # 0
CeilQuot(a, b) == IF b > 0 THEN CeilDiv(a, b) ELSE 0 - (a \div (0 - b))

\* simulate_lif has no check of its arguments.  What stops it before the
\* loop is an exception of a line on the way: T / dt and dt / tau divide
\* Python floats (ZeroDivisionError), np.zeros(n) needs n >= 0 (ValueError)
\* and v[0] = v_rest needs n >= 1 (IndexError).
UiRaises(a) ==
    \/ a.dt = 0
    \/ a.dt # 0 /\ CeilQuot(a.T, a.dt) < 1
    \/ a.tau = 0

\* the limits of LIFRequest in the units of the model: dt in (0, 0.01],
\* t_max in (0, 10], R in (0, 1e9], C in (0, 1]
DtLe == 4
TMaxLe == 4 * MaxLifSteps
RLe == 2
CLe == 4 * MaxTau
LIFRequestValid(a) ==
    /\ a.dt > 0 /\ a.dt <= DtLe
    /\ a.t_max > 0 /\ a.t_max <= TMaxLe
    /\ a.R > 0 /\ a.R <= RLe
    /\ a.C > 0 /\ a.C <= CLe

\* np.random.seed(seed): the generator state is a function of the seed
SeedState(seed) == seed % RngMod

\* the seed of a request: <<>> is None
NoSeed == <<>>

\* a call of simulate_lif, through the lines before its loop
UiCall ==
    /\ lpc = "request"
    /\ lif.fn = "simulate_lif"
    /\ LET s == IF UiRaises(lif) THEN LifStopped(lif, "raised") ELSE UiStart(lif)
       IN  /\ lif' = s.lif
           /\ lif_t' = s.lif_t
           /\ v' = s.v
           /\ spikes' = s.spikes
           /\ V' = s.V
           /\ kstep' = s.kstep
           /\ lpc' = s.lpc
    /\ UNCHANGED <<learnVars, vizVars, appVars, extVars>>

\* POST /lif/simulate: the LIFRequest validation, then lif_simulate through
\* the lines before its loop (the optional seeding included)
ApiPost ==
    /\ lpc = "request"
    /\ lif.fn = "lif_simulate"
    /\ \E junk \in Junk :
        LET s == IF LIFRequestValid(lif) THEN ApiStart(lif, junk)
                 ELSE LifStopped(lif, "rejected")
        IN  /\ lif' = s.lif
            /\ lif_t' = s.lif_t
            /\ v' = s.v
            /\ spikes' = s.spikes
            /\ V' = s.V
            /\ kstep' = s.kstep
            /\ lpc' = s.lpc
    /\ rng' = IF LIFRequestValid(lif) /\ lif.seed # NoSeed
              THEN SeedState(lif.seed[1]) ELSE rng
    /\ UNCHANGED <<session_state, last_run, prev_run>>
    /\ UNCHANGED <<learnVars, appVars, extVars>>

\* arguments of either sign
UiCallArgs ==
    {[fn |-> "simulate_lif", tau |-> tau, dt |-> dt, T |-> MaxLifSteps,
      v_rest |-> 0, v_reset |-> 0, v_th |-> vt * LifOne,
      i_dc |-> i * LifOne, noise_sigma |-> ns] :
        tau \in {0 - 2, 0 - 1, 0, 1, 2}, dt \in {0 - 1, 0, 1},
        vt \in {1, 2}, i \in {1, 3}, ns \in {0, 1}}
ApiRequests ==
    {[fn |-> "lif_simulate", R |-> R, C |-> C, dt |-> dt, t_max |-> t_max,
      V_rest |-> 0, V_reset |-> 0, V_th |-> LifOne, I |-> i * LifOne,
      seed |-> seed] :
        R \in {0 - 1, 0, 1, RLe, RLe + 1}, C \in {0 - 1, 0, 1, 2},
        dt \in {0 - 1, 0, 1, 2, DtLe + 1},
        t_max \in {0, MaxLifSteps, TMaxLe + 1},
        i \in {1, 2}, seed \in {NoSeed, <<1>>}}

LifRequested(a) == LifAt(LifStopped(a, "request"))

InitLifCall ==
    /\ IdleExt
    /\ IdleLearn
    /\ IdleViz
    /\ IdleApp
    /\ \E a \in UiCallArgs \cup ApiRequests : LifRequested(a)

NextLifCall == UiCall \/ ApiPost \/ UiLifStep \/ ApiLifStep \/ LifReturn

SpecLifCall == InitLifCall /\ [][NextLifCall]_vars

\* ============================== the LIF tool of the playground script
\* slider values in the units of the model; every slider range lies inside
\* the range LIFRequest accepts, R up to the accepted maximum itself
PlaygroundSliders ==
    {[t_max |-> d[2], dt |-> d[1], R |-> R, C |-> C,
      V_rest |-> vr * LifOne, V_reset |-> vs * LifOne, V_th |-> vt * LifOne,
      I |-> i * LifOne] :
        d \in Durations, R \in Resistances, C \in Capacitances,
        vr \in {0, 2}, vs \in {0, 0 - 1}, vt \in {1, 2}, i \in {0, 1, 2}}

\* dV = (-(V - V_rest) / (R * C) + (I / C)) * dt; V = V + dV
LocalEulerNoLeak(Vprev, a) ==
    Vprev + (a.I \div a.C) * a.dt
LocalEuler(Vprev, a) ==
    Vprev + ((0 - (Vprev - a.V_rest)) \div (a.R * a.C) + a.I \div a.C) * a.dt

\* the locals of the script before its loop
LocalStart(a, junk) ==
    LET n == FloorDiv(a.t_max, a.dt) + 1
    IN  [n |-> n, t |-> Linspace(a.t_max, n),
         v |-> [i \in 1..n |-> IF i = 1 THEN a.V_rest ELSE junk],
         spikes |-> <<>>, V |-> a.V_rest]

\* `for i in range(1, n)` from iteration i on
RECURSIVE LocalLoop(_, _, _)
LocalLoop(i, st, a) ==
    IF i >= st.n THEN st
    ELSE LET x == LocalEuler(st.V, a)
             Vn == IF x >= a.V_th THEN a.V_reset ELSE x
         IN  LocalLoop(i + 1,
                 [st EXCEPT !.V = Vn, !.v[i + 1] = Vn,
                            !.spikes = IF x >= a.V_th THEN Append(@, st.t[i + 1]) ELSE @],
                 a)

\* dict(dt=dt, t_max=t_max, R=R, C=C, V_rest=..., V_reset=..., V_th=..., I=I)
Payload(a) ==
    [dt |-> a.dt, t_max |-> a.t_max, R |-> a.R, C |-> a.C,
     V_rest |-> a.V_rest, V_reset |-> a.V_reset, V_th |-> a.V_th, I |-> a.I]

\* the LIFRequest parsed from a payload: absent fields take their defaults
LIFRequestOf(payload) == payload @@ [fn |-> "lif_simulate", seed |-> NoSeed]

\* one run of the script with tool = "lif": the local simulation, the chart
\* and the displayed payload
PlaygroundLif ==
    /\ ~playground.ran
    /\ lpc = "idle"
    /\ \E a \in PlaygroundSliders, junk \in Junk :
        \E st \in {LocalLoop(1, LocalStart(a, junk), a)} :
            playground' = [ran |-> TRUE, sliders |-> a, t |-> st.t, v |-> st.v,
                           spikes |-> st.spikes, payload |-> Payload(a)]
    /\ UNCHANGED <<hebb, sessions, extVars>>
    /\ UNCHANGED <<learnVars, lifVars, vizVars>>

\* the displayed payload is sent to POST /lif/simulate
PlaygroundSend ==
    /\ playground.ran
    /\ lpc = "idle"
    /\ lif' = LIFRequestOf(playground.payload)
    /\ lpc' = "request"
    /\ UNCHANGED <<lif_t, v, spikes, V, kstep>>
    /\ UNCHANGED <<learnVars, vizVars, appVars, extVars>>

InitPlayground ==
    /\ IdleExt
    /\ IdleLearn
    /\ IdleLif
    /\ IdleViz
    /\ IdleApp

NextPlayground ==
    PlaygroundLif \/ PlaygroundSend \/ ApiPost \/ ApiLifStep \/ LifReturn

SpecPlayground == InitPlayground /\ [][NextPlayground]_vars

\* ======================================= hebb_step and the hebb tool
\* a weight x is stored as x * HebbOne, so that eta * pre * post is exact
HebbOne == HebbDen * HebbDen * HebbDen

\* HebbRequest: pre and post in [0, 1], eta in (0, 1]; w, w_min and w_max
\* are unconstrained
HebbRequestValid(req) ==
    /\ req.pre >= 0 /\ req.pre <= HebbDen
    /\ req.post >= 0 /\ req.post <= HebbDen
    /\ req.eta > 0 /\ req.eta <= HebbDen

\* w_next = float(np.clip(req.w + req.eta * req.pre * req.post, w_min, w_max))
hebb_stepNoPost(req) ==
    Clip(req.w + req.eta * req.pre * HebbDen, req.w_min, req.w_max)
hebb_step(req) ==
    Clip(req.w + req.eta * req.pre * req.post, req.w_min, req.w_max)

\* [w_min, w_max] of a request: ordered, degenerate, inverted
HebbBounds == {<<0, HebbOne>>, <<0, 0>>, <<HebbOne, 0>>, <<0 - HebbOne, HebbOne \div 2>>}
HebbRequests ==
    {[w |-> w, pre |-> pre, post |-> post, eta |-> eta, w_min |-> b[1], w_max |-> b[2]] :
        w \in {0 - HebbOne, 0, HebbOne \div 2, HebbOne - 1, 2 * HebbOne},
        pre \in {0 - 1, 0, 1, HebbDen, HebbDen + 1},
        post \in {0, 1, HebbDen},
        eta \in {0, 1, HebbDen},
        b \in HebbBounds}

\* the sliders of the hebb tool: w0, pre, post, w_min, w_max in [0, 1], eta in
\* [0, 0.5]; w_min and w_max are independent sliders
HebbSliders ==
    {[w0 |-> w, pre |-> pre, post |-> post, eta |-> eta, w_min |-> lo, w_max |-> hi,
      steps |-> HebbSteps] :
        w \in {0, HebbOne \div 2, HebbOne},
        pre \in {0, HebbDen}, post \in {1, HebbDen},
        eta \in {0, HebbDen \div 2},
        lo \in {0, HebbOne \div 2, HebbOne}, hi \in {0, HebbOne \div 2, HebbOne}}

InitHebb ==
    /\ IdleExt
    /\ IdleLearn
    /\ IdleLif
    /\ IdleViz
    /\ playground = [ran |-> FALSE]
    /\ sessions = <<>>
    /\ \/ \E req \in HebbRequests :
            hebb = [fn |-> "hebb_step", pc |-> "request", req |-> req, w_next |-> 0]
       \/ \E sl \in HebbSliders :
            hebb = [fn |-> "hebb tool", pc |-> "loop", req |-> sl, w |-> sl.w0,
                    ws |-> <<sl.w0>>]

\* POST /hebb/step: the HebbRequest validation, then hebb_step
HebbPost ==
    /\ hebb.fn = "hebb_step"
    /\ hebb.pc = "request"
    /\ hebb' = IF HebbRequestValid(hebb.req)
               THEN [hebb EXCEPT !.pc = "responded", !.w_next = hebb_step(hebb.req)]
               ELSE [hebb EXCEPT !.pc = "rejected"]
    /\ UNCHANGED <<playground, sessions, extVars>>
    /\ UNCHANGED <<learnVars, lifVars, vizVars>>

\* one iteration of `for _ in range(int(steps))` of the hebb tool
HebbToolStep ==
    /\ hebb.fn = "hebb tool"
    /\ hebb.pc = "loop"
    /\ Len(hebb.ws) - 1 < hebb.req.steps
    /\ LET wn == Clip(hebb.w + hebb.req.eta * hebb.req.pre * hebb.req.post,
                      hebb.req.w_min, hebb.req.w_max)
       IN  hebb' = [hebb EXCEPT !.w = wn, !.ws = Append(@, wn)]
    /\ UNCHANGED <<playground, sessions, extVars>>
    /\ UNCHANGED <<learnVars, lifVars, vizVars>>

\* the chart of ws
HebbToolPlot ==
    /\ hebb.fn = "hebb tool"
    /\ hebb.pc = "loop"
    /\ Len(hebb.ws) - 1 = hebb.req.steps
    /\ hebb' = [hebb EXCEPT !.pc = "plotted"]
    /\ UNCHANGED <<playground, sessions, extVars>>
    /\ UNCHANGED <<learnVars, lifVars, vizVars>>

NextHebb == HebbPost \/ HebbToolStep \/ HebbToolPlot

SpecHebb == InitHebb /\ [][NextHebb]_vars

\* ======================================= spike generators, Run Simulation
\* numpy's global generator, abstracted to a small congruential generator:
\* every draw advances the one process-wide state and is a function of it.
RngNext(s) == (5 * s + 3) % RngMod
\* the uniform draw in [0, 1) made from state s, as a numerator over UDen
RngUniform(s) == (RngNext(s) * UDen) \div RngMod

\* np.random.rand(count): the draws in order, and the state after them
RECURSIVE RandFlat(_, _)
RandFlat(s, count) ==
    IF count = 0 THEN [u |-> <<>>, rng |-> s]
    ELSE LET r == RandFlat(RngNext(s), count - 1)
         IN  [u |-> <<RngUniform(s)>> \o r.u, rng |-> r.rng]

\* np.random.rand(rows, cols): filled row by row
Rand(s, rows, cols) ==
    LET r == RandFlat(s, rows * cols)
    IN  [u |-> [a \in 1..rows |-> [b \in 1..cols |-> r.u[(a - 1) * cols + b]]],
         rng |-> r.rng]

\* np.random.randint(0, high): low inclusive, high exclusive
RandintInclusive(s, high) ==
    [x |-> (RngNext(s) * (high + 1)) \div RngMod, rng |-> RngNext(s)]
Randint(s, high) ==
    [x |-> (RngNext(s) * high) \div RngMod, rng |-> RngNext(s)]

\* int(duration_ms / dt_ms)
StepCount(duration_ms, dt_ms) == duration_ms \div dt_ms
\* prob = rate_hz * dt_ms / 1000.0 as a numerator over UDen; rate_hz is
\* counted in units of 1000/UDen Hz
Prob(rate_hz, dt_ms) == rate_hz * dt_ms

\* (x < prob).astype(np.float32), elementwise
Bernoulli(u, prob) ==
    [a \in DOMAIN u |-> [b \in DOMAIN u[a] |-> IF u[a][b] < prob THEN 1 ELSE 0]]

SpikeMatrix(steps, n, a) == [n_steps |-> steps, n_neurons |-> n, at |-> a]

generate_poisson_spikes(s, rate_hz, duration_ms, dt_ms, n_neurons) ==
    LET n_steps == StepCount(duration_ms, dt_ms)
        r == Rand(s, n_steps, n_neurons)
    IN  [spikes |-> SpikeMatrix(n_steps, n_neurons, Bernoulli(r.u, Prob(rate_hz, dt_ms))),
         rng |-> r.rng, draws |-> [u |-> r.u]]

\* `for i in range(n_neurons): offset = np.random.randint(0, interval_steps)`
RECURSIVE RegularOffsets(_, _, _)
RegularOffsets(s, count, interval_steps) ==
    IF count = 0 THEN [off |-> <<>>, rng |-> s]
    ELSE LET d == Randint(s, interval_steps)
             r == RegularOffsets(d.rng, count - 1, interval_steps)
         IN  [off |-> <<d.x>> \o r.off, rng |-> r.rng]

\* rows hit by the slice offset::interval_steps of an array of n_steps rows
SliceFrom(offset, interval_steps, n_steps) ==
    {x \in 0..(n_steps - 1) : x >= offset /\ (x - offset) % interval_steps = 0}

generate_regular_spikes(s, interval_ms, duration_ms, dt_ms, n_neurons) ==
    LET n_steps == StepCount(duration_ms, dt_ms)
        interval_steps == StepCount(interval_ms, dt_ms)
        r == RegularOffsets(s, n_neurons, interval_steps)
    IN  [spikes |-> SpikeMatrix(n_steps, n_neurons,
            [a \in 1..n_steps |-> [i \in 1..n_neurons |->
                IF (a - 1) \in SliceFrom(r.off[i], interval_steps, n_steps)
                THEN 1 ELSE 0]]),
         rng |-> r.rng, draws |-> [offset |-> r.off]]

\* (correlation * shared + (1 - correlation) * independent) > 0.5, the
\* correlation a numerator over UDen
MixSharedOnly(correlation, sh, ind) ==
    IF 2 * (correlation * sh) > UDen THEN 1 ELSE 0
MixAtLeast(correlation, sh, ind) ==
    IF 2 * (correlation * sh + (UDen - correlation) * ind) >= UDen THEN 1 ELSE 0
Mix(correlation, sh, ind) ==
    IF 2 * (correlation * sh + (UDen - correlation) * ind) > UDen THEN 1 ELSE 0

generate_correlated_spikes(s, rate_hz, correlation, duration_ms, dt_ms, n_neurons) ==
    LET n_steps == StepCount(duration_ms, dt_ms)
        prob == Prob(rate_hz, dt_ms)
        rs == Rand(s, n_steps, 1)
        shared == Bernoulli(rs.u, prob)
        ri == Rand(rs.rng, n_steps, n_neurons)
        independent == Bernoulli(ri.u, prob)
    IN  [spikes |-> SpikeMatrix(n_steps, n_neurons,
            [a \in 1..n_steps |-> [i \in 1..n_neurons |->
                Mix(correlation, shared[a][1], independent[a][i])]]),
         rng |-> ri.rng,
         draws |-> [shared |-> shared, independent |-> independent]]

\* np.random.uniform(-0.1, 0.1, (n_pre, n_post)): low + (high - low) * u
WTenth == WOne \div 10
RandomWeights(s, n_pre, n_post) ==
    LET r == Rand(s, n_pre, n_post)
    IN  [w |-> [i \in 1..n_pre |-> [j \in 1..n_post |->
                    (0 - WTenth) + (2 * WTenth * r.u[i][j]) \div UDen]],
         rng |-> r.rng]

\* the learning functions run to their return value
RECURSIVE StdpRun(_, _, _, _, _, _, _, _)
StdpRun(step, Wc, ptr, qtr, hist, pre, post, p) ==
    IF step = pre.n_steps THEN hist
    ELSE LET r == StdpIter(Wc, ptr, qtr, pre.at[step + 1], post.at[step + 1], p)
         IN  StdpRun(step + 1, r.W, r.pre_trace, r.post_trace,
                     Append(hist, r.W), pre, post, p)

RECURSIVE HebbRun(_, _, _, _, _, _)
HebbRun(step, Wc, hist, pre, post, p) ==
    IF step = pre.n_steps THEN hist
    ELSE LET Wn == HebbIter(Wc, pre.at[step + 1], post.at[step + 1], p)
         IN  HebbRun(step + 1, Wn, Append(hist, Wn), pre, post, p)

RECURSIVE BcmRun(_, _, _, _, _, _, _)
BcmRun(step, Wc, act, hist, pre, post, p) ==
    IF step = pre.n_steps THEN hist
    ELSE LET Wn == BcmIter(Wc, pre.at[step + 1], post.at[step + 1], p)
         IN  BcmRun(step + 1, Wn, BcmActivity(act, post.at[step + 1], p),
                    Append(hist, Wn), pre, post, p)

LearnRun(pre, post, w, p) ==
    CASE p.rule = "STDP" ->
            StdpRun(0, w, Zeros(pre.n_neurons), Zeros(post.n_neurons),
                    FirstHistory(w, p), pre, post, p)
      [] p.rule = "Hebbian" -> HebbRun(0, w, FirstHistory(w, p), pre, post, p)
      [] p.rule = "BCM" ->
            BcmRun(0, w, Zeros(post.n_neurons), FirstHistory(w, p), pre, post, p)

\* sidebar values: the learning rule with its parameters and bounds, the
\* network and clock, the spike pattern with its parameters
SliderBounds == <<0 - WOne, WOne>>
LearningPars ==
    StdpPars(SliderBounds, {<<3, 1>>}) \cup HebbPars(SliderBounds)
        \cup {q \in BcmPars(SliderBounds) : q.theta = CoefDen - 1}
Clocks == {[simulation_time |-> 4, dt |-> 1]}
Networks == {[n_pre |-> 2, n_post |-> 2]}
PatternPars ==
    {[spike_mode |-> "Poisson", pre_rate |-> a, post_rate |-> 1] : a \in {1, 2}}
    \cup {[spike_mode |-> "Regular", pre_interval |-> a, post_interval |-> 2] :
            a \in {1, 2, 3, 5}}
    \cup {[spike_mode |-> "Correlated", base_rate |-> 2, correlation |-> c] :
            c \in {1, 2, 3}}
\* STDP with every pattern; Hebbian and BCM with one pattern each
Sidebars ==
    {sb \in [learning : LearningPars, net : Networks, clock : Clocks,
             pattern : PatternPars] :
        \/ sb.learning.rule = "STDP"
        \/ sb.learning.rule = "Hebbian" /\ sb.pattern.spike_mode = "Poisson"
                                        /\ sb.pattern.pre_rate = 2
        \/ sb.learning.rule = "BCM" /\ sb.pattern.spike_mode = "Regular"
                                    /\ sb.pattern.pre_interval = 2}

\* one population's spike train, by spike_mode, from generator state s
GenerateSpikes(s, sb, pre_side, n_neurons) ==
    LET g == sb.pattern
        T == sb.clock.simulation_time
        dt == sb.clock.dt
    IN  CASE g.spike_mode = "Poisson" ->
                generate_poisson_spikes(s,
                    IF pre_side THEN g.pre_rate ELSE g.post_rate, T, dt, n_neurons)
          [] g.spike_mode = "Regular" ->
                generate_regular_spikes(s,
                    IF pre_side THEN g.pre_interval ELSE g.post_interval, T, dt, n_neurons)
          [] g.spike_mode = "Correlated" ->
                generate_correlated_spikes(s, g.base_rate, g.correlation, T, dt, n_neurons)

\* The body of `if st.button("Run Simulation")`: pre spikes, post spikes,
\* initial weights, the learning rule, then the session_state store.
RunWith(sb) ==
    \E a \in {GenerateSpikes(rng, sb, TRUE, sb.net.n_pre)} :
    \E b \in {GenerateSpikes(a.rng, sb, FALSE, sb.net.n_post)} :
    \E wi \in {RandomWeights(b.rng, sb.net.n_pre, sb.net.n_post)} :
    \E hist \in {LearnRun(a.spikes, b.spikes, wi.w, sb.learning)} :
        /\ rng' = wi.rng
        /\ session_state' = [stored |-> TRUE, W_history |-> hist,
                             pre_spikes |-> a.spikes, post_spikes |-> b.spikes,
                             simulation_time |-> sb.clock.simulation_time,
                             dt |-> sb.clock.dt]
        /\ last_run' = [ran |-> TRUE, sidebar |-> sb, rng0 |-> rng,
                        rng_post |-> a.rng,
                        pre_draws |-> a.draws, post_draws |-> b.draws,
                        pre_spikes |-> a.spikes, post_spikes |-> b.spikes,
                        w_init |-> wi.w, W_history |-> hist]
        /\ prev_run' = last_run

RunSimulation ==
    \E sb \in Sidebars :
        /\ RunWith(sb)
        /\ UNCHANGED <<learnVars, lifVars, appVars, extVars>>

\* the process starts with the generator seeded from OS entropy
InitViz ==
    /\ IdleExt
    /\ IdleLearn
    /\ IdleLif
    /\ IdleApp
    /\ rng \in 0..(RngMod - 1)
    /\ session_state = [stored |-> FALSE]
    /\ last_run = [ran |-> FALSE]
    /\ prev_run = [ran |-> FALSE]

NextViz == RunSimulation

SpecViz == InitViz /\ [][NextViz]_vars

\* ------------------------------------ script runs that overlap in time
\* Streamlit runs the script of each browser session in a thread of its
\* own inside one server process, and the compute API serves its requests
\* in the same way; np.random is one generator per process.  A run of the
\* Run Simulation block is split here at the calls of its generators: a
\* generator call is one step, other runs may take steps between two calls.
SessionIds == {1, 2}
ConcSidebars ==
    {sb \in Sidebars :
        /\ sb.learning.rule = "STDP"
        /\ \/ sb.pattern.spike_mode = "Poisson" /\ sb.pattern.pre_rate = 2
           \/ sb.pattern.spike_mode = "Regular" /\ sb.pattern.pre_interval = 3}
\* accepted requests, with and without a seed
ConcRequests ==
    {[fn |-> "lif_simulate", R |-> 1, C |-> 1, dt |-> 1, t_max |-> 1,
      V_rest |-> 0, V_reset |-> 0, V_th |-> LifOne, I |-> LifOne, seed |-> seed] :
        seed \in {NoSeed, <<1>>}}

SessionReady(sb) ==
    [pc |-> "ready", sidebar |-> sb, rng0 |-> 0, pre_spikes |-> <<>>,
     post_spikes |-> <<>>, w_init |-> <<>>, W_history |-> <<>>]

InitConc ==
    /\ IdleExt
    /\ IdleLearn
    /\ \E a \in ConcRequests : LifRequested(a)
    /\ rng \in 0..(RngMod - 1)
    /\ session_state = [stored |-> FALSE]
    /\ last_run = [ran |-> FALSE]
    /\ prev_run = [ran |-> FALSE]
    /\ playground = [ran |-> FALSE]
    /\ hebb = [fn |-> "none"]
    /\ sessions \in [SessionIds -> {SessionReady(sb) : sb \in ConcSidebars}]

\* pre_spikes = generate_..._spikes(...), the first draw of the run; rng0
\* records the generator state the run starts from
SessionPre(s) ==
    /\ sessions[s].pc = "ready"
    /\ \E a \in {GenerateSpikes(rng, sessions[s].sidebar, TRUE,
                                 sessions[s].sidebar.net.n_pre)} :
        /\ rng' = a.rng
        /\ sessions' = [sessions EXCEPT ![s].pc = "post", ![s].rng0 = rng,
                                         ![s].pre_spikes = a.spikes]
    /\ UNCHANGED <<session_state, last_run, prev_run, playground, hebb, extVars>>
    /\ UNCHANGED <<learnVars, lifVars>>

\* post_spikes = generate_..._spikes(...)
SessionPost(s) ==
    /\ sessions[s].pc = "post"
    /\ \E b \in {GenerateSpikes(rng, sessions[s].sidebar, FALSE,
                                 sessions[s].sidebar.net.n_post)} :
        /\ rng' = b.rng
        /\ sessions' = [sessions EXCEPT ![s].pc = "weights",
                                         ![s].post_spikes = b.spikes]
    /\ UNCHANGED <<session_state, last_run, prev_run, playground, hebb, extVars>>
    /\ UNCHANGED <<learnVars, lifVars>>

\* w_init = np.random.uniform(-0.1, 0.1, (n_pre, n_post))
SessionWeights(s) ==
    /\ sessions[s].pc = "weights"
    /\ \E wi \in {RandomWeights(rng, sessions[s].sidebar.net.n_pre,
                                 sessions[s].sidebar.net.n_post)} :
        /\ rng' = wi.rng
        /\ sessions' = [sessions EXCEPT ![s].pc = "learn", ![s].w_init = wi.w]
    /\ UNCHANGED <<session_state, last_run, prev_run, playground, hebb, extVars>>
    /\ UNCHANGED <<learnVars, lifVars>>

\* W_history = ..._learning(...), no draw
SessionLearn(s) ==
    /\ sessions[s].pc = "learn"
    /\ sessions' = [sessions EXCEPT ![s].pc = "done",
                        ![s].W_history = LearnRun(sessions[s].pre_spikes,
                                                  sessions[s].post_spikes,
                                                  sessions[s].w_init,
                                                  sessions[s].sidebar.learning)]
    /\ UNCHANGED <<rng, session_state, last_run, prev_run, playground, hebb, extVars>>
    /\ UNCHANGED <<learnVars, lifVars>>

NextConc ==
    \/ \E s \in SessionIds :
            SessionPre(s) \/ SessionPost(s) \/ SessionWeights(s) \/ SessionLearn(s)
    \/ ApiPost
    \/ ApiLifStep
    \/ LifReturn

SpecConc == InitConc /\ [][NextConc]_vars

\* ------------------------- the learning functions, arrays as objects
\* numpy arrays are objects: a name refers to one, `W[i, :] -= x` and
\* `W += dW` write the object the name refers to, np.copy and np.clip make a
\* new one.  The heap is the sequence of the objects made so far and a
\* reference is an index into it.
NewArray(h, val) == [heap |-> Append(h, val), ref |-> Len(h) + 1]

\* np.copy(a), a.copy()
CopyAlias(h, a) == [heap |-> h, ref |-> a]
Copy(h, a) == NewArray(h, h[a])

\* np.clip(a, lo, hi)
ClipNew(h, a, lo, hi) == NewArray(h, ClipMatrix(h[a], lo, hi))

\* an in-place update of the object at a
WriteInPlace(h, a, val) == [h EXCEPT ![a] = val]

\* the arguments of the call as the caller holds them
MemArgs(pre, post, w) == <<pre.at, post.at, w>>

\* W = np.copy(w_init); W_history = [W.copy()]; traces and average zeroed.
\* given and appended are history: the contents of the arguments at the
\* call, and of each snapshot when it was appended.
MemEntry(pre, post, w, p) ==
    \E c \in {Copy(MemArgs(pre, post, w), 3)} :
    \E d \in {Copy(c.heap, c.ref)} :
        mem = [pc |-> "loop", heap |-> d.heap,
               pre_spikes |-> 1, post_spikes |-> 2, w_init |-> 3,
               n_steps |-> pre.n_steps, par |-> p,
               W |-> c.ref, W_history |-> <<d.ref>>,
               pre_trace |-> Zeros(pre.n_neurons),
               post_trace |-> Zeros(post.n_neurons),
               post_activity |-> Zeros(post.n_neurons),
               t |-> 0,
               given |-> MemArgs(pre, post, w),
               appended |-> <<d.heap[d.ref]>>]

InitMem ==
    /\ IdleLearn
    /\ IdleLif
    /\ IdleViz
    /\ IdleApp
    /\ page = [loaded |-> FALSE]
    /\ pipeline = [pc |-> "idle"]
    /\ \E steps \in 1..MaxSteps, n \in NeuronCounts, m \in NeuronCounts :
       \E pre \in SpikeMatrices(steps, n), post \in SpikeMatrices(steps, m) :
       \E b \in {<<0 - WOne, WOne>>, <<0, WStep>>} :
       \E p \in StdpPars(b, {<<3, 1>>}) \cup HebbPars(b)
                  \cup {q \in BcmPars(b) : q.theta = CoefDen - 1} :
           MemEntry(pre, post, Graded(n, m), p)

MemPreRow == mem.heap[mem.pre_spikes][mem.t + 1]
MemPostRow == mem.heap[mem.post_spikes][mem.t + 1]

\* W_history.append(W.copy()) after the step left heap h and reference w
MemAppend(h, w, traces) ==
    \E c \in {Copy(h, w)} :
        mem' = [mem EXCEPT !.heap = c.heap, !.W = w,
                           !.W_history = Append(@, c.ref),
                           !.appended = Append(@, c.heap[c.ref]),
                           !.pre_trace = traces.pre_trace,
                           !.post_trace = traces.post_trace,
                           !.post_activity = traces.post_activity,
                           !.t = @ + 1]

MemTraces == [pre_trace |-> mem.pre_trace, post_trace |-> mem.post_trace,
              post_activity |-> mem.post_activity]

\* stdp_learning: both loops write the object W refers to, np.clip rebinds W
MemStdpStep ==
    /\ mem.pc = "loop"
    /\ mem.par.rule = "STDP"
    /\ mem.t < mem.n_steps
    /\ LET p  == mem.par
           dp == Decay(mem.pre_trace, p.decay_plus)
           dq == Decay(mem.post_trace, p.decay_minus)
           a  == PreSpikeLoop(1, mem.heap[mem.W], dp, MemPreRow, dq, p)
           b  == PostSpikeLoop(1, a.W, dq, MemPostRow, a.pre_trace, p)
       IN  \E c \in {ClipNew(WriteInPlace(mem.heap, mem.W, b.W), mem.W,
                             p.w_min, p.w_max)} :
               MemAppend(c.heap, c.ref,
                         [MemTraces EXCEPT !.pre_trace = a.pre_trace,
                                           !.post_trace = b.post_trace])
    /\ UNCHANGED <<learnVars, lifVars, vizVars, appVars, page, pipeline>>

\* hebbian_learning: `W += dW` writes the object, np.clip rebinds W; outside
\* the gate W keeps referring to the same object
MemHebbStep ==
    /\ mem.pc = "loop"
    /\ mem.par.rule = "Hebbian"
    /\ mem.t < mem.n_steps
    /\ IF Gate(MemPreRow, MemPostRow)
       THEN \E c \in {ClipNew(WriteInPlace(mem.heap, mem.W,
                                  MatAdd(mem.heap[mem.W],
                                         HebbDW(MemPreRow, MemPostRow, mem.par))),
                              mem.W, mem.par.w_min, mem.par.w_max)} :
                MemAppend(c.heap, c.ref, MemTraces)
       ELSE MemAppend(mem.heap, mem.W, MemTraces)
    /\ UNCHANGED <<learnVars, lifVars, vizVars, appVars, page, pipeline>>

\* bcm_learning: post_activity is written in place, then as hebbian_learning
MemBcmStep ==
    /\ mem.pc = "loop"
    /\ mem.par.rule = "BCM"
    /\ mem.t < mem.n_steps
    /\ LET act == [MemTraces EXCEPT !.post_activity =
                       BcmActivity(mem.post_activity, MemPostRow, mem.par)]
       IN  IF Gate(MemPreRow, MemPostRow)
           THEN \E c \in {ClipNew(WriteInPlace(mem.heap, mem.W,
                                      MatAdd(mem.heap[mem.W],
                                             BcmDW(MemPreRow, MemPostRow, mem.par))),
                                  mem.W, mem.par.w_min, mem.par.w_max)} :
                    MemAppend(c.heap, c.ref, act)
           ELSE MemAppend(mem.heap, mem.W, act)
    /\ UNCHANGED <<learnVars, lifVars, vizVars, appVars, page, pipeline>>

\* return np.array(W_history): the contents of the snapshots as they are now
MemReturn ==
    /\ mem.pc = "loop"
    /\ mem.t = mem.n_steps
    /\ mem' = [mem EXCEPT !.pc = "returned"] @@
              [result |-> [k \in 1..Len(mem.W_history) |-> mem.heap[mem.W_history[k]]]]
    /\ UNCHANGED <<learnVars, lifVars, vizVars, appVars, page, pipeline>>

NextMem == MemStdpStep \/ MemHebbStep \/ MemBcmStep \/ MemReturn

SpecMem == InitMem /\ [][NextMem]_vars

\* ------------------- the visualizer page, script run by script run
\* Streamlit runs the script top to bottom at page load and after every
\* widget change; st.button returns True only in the run its click caused.
\* Every run ends with the statistics, the four tabs and the export, which
\* read n_pre, n_post, simulation_time and dt from the sidebar of that run
\* and the arrays from st.session_state.
PageNetworks == {[n_pre |-> a, n_post |-> b] : a \in {2, 3}, b \in {2, 3}}
PageClocks == {[simulation_time |-> 4, dt |-> d] : d \in {1, 2}}
PageSidebars ==
    [learning : StdpPars(SliderBounds, {<<3, 1>>}), net : PageNetworks,
     clock : PageClocks,
     pattern : {[spike_mode |-> "Poisson", pre_rate |-> 2, post_rate |-> 1]}]

\* the shape of the stored W_history[k]
StoredRows(ss) == Len(ss.W_history[1])
StoredCols(ss) == Len(ss.W_history[1][1])

\* the first exception of the display code, in script order: the tracked
\* synapses W_history[:, i, j] for i < min(3, n_pre), j < min(3, n_post)
\* and the raster rows pre_spikes[:, i] for i < min(n_pre, 20) index past
\* the stored arrays (IndexError); the DataFrames of the export are given
\* n_pre, n_post and n_pre * n_post labels for the stored shapes (ValueError)
DisplayRaises(ss, sb) ==
    IF \/ Min(3, sb.net.n_pre) > StoredRows(ss)
       \/ Min(3, sb.net.n_post) > StoredCols(ss)
       \/ Min(sb.net.n_pre, 20) > ss.pre_spikes.n_neurons
       \/ Min(sb.net.n_post, 20) > ss.post_spikes.n_neurons
    THEN "IndexError"
    ELSE IF \/ sb.net.n_pre # StoredRows(ss)
            \/ sb.net.n_post # StoredCols(ss)
            \/ sb.net.n_pre * sb.net.n_post # StoredRows(ss) * StoredCols(ss)
         THEN "ValueError"
         ELSE "none"

\* what a script run shows: the parameters its labels, indices and time
\* axes are computed from, the axis np.arange(len(W_history)) * dt, and the
\* exception that ended the run, if any
Display(ss, sb) ==
    IF ~ss.stored THEN [shown |-> FALSE]
    ELSE [shown |-> TRUE,
          n_pre |-> sb.net.n_pre, n_post |-> sb.net.n_post,
          simulation_time |-> sb.clock.simulation_time, dt |-> sb.clock.dt,
          time_axis |-> [k \in 1..Len(ss.W_history) |-> (k - 1) * sb.clock.dt],
          raised |-> DisplayRaises(ss, sb)]

\* the page is opened: first script run, nothing stored
InitPage ==
    /\ IdleLearn
    /\ IdleLif
    /\ IdleApp
    /\ mem = [pc |-> "idle"]
    /\ pipeline = [pc |-> "idle"]
    /\ rng \in 0..(RngMod - 1)
    /\ session_state = [stored |-> FALSE]
    /\ last_run = [ran |-> FALSE]
    /\ prev_run = [ran |-> FALSE]
    /\ \E sb \in PageSidebars :
           page = [loaded |-> TRUE, sidebar |-> sb,
                   view |-> Display([stored |-> FALSE], sb)]

\* the sidebar values that differ from sb in one of n_pre, n_post, dt
OneWidgetAway(sb) ==
    {x \in PageSidebars :
        Cardinality({f \in {"n_pre", "n_post", "dt"} :
            CASE f = "n_pre" -> x.net.n_pre # sb.net.n_pre
              [] f = "n_post" -> x.net.n_post # sb.net.n_post
              [] f = "dt" -> x.clock.dt # sb.clock.dt}) = 1}

\* a sidebar widget is moved: the script reruns, the button is not clicked
SidebarChange ==
    /\ page.loaded
    /\ \E sb \in OneWidgetAway(page.sidebar) :
           page' = [page EXCEPT !.sidebar = sb, !.view = Display(session_state, sb)]
    /\ UNCHANGED <<learnVars, lifVars, vizVars, appVars, mem, pipeline>>

\* Run Simulation is clicked: the script reruns with the button true
RunClick ==
    /\ page.loaded
    /\ RunWith(page.sidebar)
    /\ page' = [page EXCEPT !.view = Display(session_state', page.sidebar)]
    /\ UNCHANGED <<learnVars, lifVars, appVars, mem, pipeline>>

NextPage == SidebarChange \/ RunClick

SpecPage == InitPage /\ [][NextPage]_vars

\* ------------------------------------- the daily pipeline, run_daily.py
\* Strings are sequences of characters; the characters of a title are a
\* lower-case letter, an upper-case letter and a double quote, and "arxiv"
\* stands for the five letters of the source.
Chars == {"a", "A", "\""}
Titles == UNION {[1..n -> Chars] : n \in 1..TitleLen}

\* The Paper records fetch_arxiv returns.
Papers ==
    {[source |-> "arxiv", source_id |-> id, title |-> ti, published_at |-> "d"] :
        id \in {"1", "2"}, ti \in Titles}

\* python-slugify: lower-case, every run of characters outside [a-z0-9]
\* becomes one hyphen, hyphens at both ends are stripped
Lower(c) == IF c = "A" THEN "a" ELSE c
IsAlnum(c) == c \notin {"-", "\""}
RECURSIVE Hyphenate(_, _)
Hyphenate(text, last) ==
    IF text = <<>> THEN <<>>
    ELSE LET c == IF IsAlnum(Head(text)) THEN Lower(Head(text)) ELSE "-"
         IN  IF c = "-" /\ last = "-" THEN Hyphenate(Tail(text), last)
             ELSE <<c>> \o Hyphenate(Tail(text), c)
StripEnd(text) ==
    IF text # <<>> /\ text[Len(text)] = "-" THEN SubSeq(text, 1, Len(text) - 1)
    ELSE text
slugify(text) == StripEnd(Hyphenate(text, "-"))

\* slugify(f"{p.source}-{p.source_id}-{p.title}")[:80], the 80 scaled to
\* SlugCut
SlugOf(p) ==
    LET sl == slugify(<<p.source, "-", p.source_id, "-">> \o p.title)
    IN  SubSeq(sl, 1, Min(SlugCut, Len(sl)))

\* cfg.out_dir / f"{slug}.md"
PathOf(slug) == slug \o <<".md">>

\* s.replace("\\", "\\\\").replace('"', '\\"')
RECURSIVE escape_yaml_str(_)
escape_yaml_str(text) ==
    IF text = <<>> THEN <<>>
    ELSE (IF Head(text) = "\"" THEN <<"\\", "\"">> ELSE <<Head(text)>>)
             \o escape_yaml_str(Tail(text))

\* summarize_paper with mock = True
summarize_paper(p) ==
    [one_sentence |-> <<"A concise, reproducible summary of: ">> \o p.title]

\* the front matter and the body of the post
render_post_markdown(p, su) ==
    [title |-> escape_yaml_str(p.title),
     description |-> escape_yaml_str(su.one_sentence),
     publishedAt |-> p.published_at,
     tags |-> <<"paper", p.source, "neural-coding">>,
     body |-> [one_sentence |-> su.one_sentence, title |-> p.title]]

\* md_path.exists()
ExistsNever(fs, path) == FALSE
Exists(fs, path) == path \in DOMAIN fs

\* md_path.write_text(md): the file is created or replaced
WriteText(fs, path, md) ==
    [q \in DOMAIN fs \cup {path} |-> IF q = path THEN md ELSE fs[q]]

\* the lists fetch_arxiv returns, at most MAX_ITEMS papers
ItemLists == UNION {[1..n -> Papers] : n \in 0..MaxItems}

\* a post somebody edited after the pipeline wrote it
EditedPost == [title |-> <<"edited">>]
NoPosts == [q \in {} |-> EditedPost]

\* main up to its loop: the items are fetched and out_dir exists; it holds
\* the posts of earlier days, if any.  writes is history: the files written,
\* with the run that wrote them; fs0 is the directory before the first run.
InitPipeline ==
    /\ IdleLearn
    /\ IdleLif
    /\ IdleViz
    /\ IdleApp
    /\ mem = [pc |-> "idle"]
    /\ page = [loaded |-> FALSE]
    /\ \E items \in ItemLists, mock \in BOOLEAN :
       \E fs \in {NoPosts} \cup {WriteText(NoPosts, PathOf(SlugOf(items[n])), EditedPost) :
                                    n \in 1..Min(1, Len(items))} :
           pipeline = [pc |-> "loop", run |-> 1, items |-> items, mock_llm |-> mock,
                       i |-> 1, fs |-> fs, fs0 |-> fs, writes |-> <<>>]

\* one iteration of `for p in items:`
PipelineItem ==
    /\ pipeline.pc = "loop"
    /\ pipeline.i <= Len(pipeline.items)
    /\ LET p == pipeline.items[pipeline.i]
           md_path == PathOf(SlugOf(p))
       IN  IF ~pipeline.mock_llm
           THEN \* summarize_paper raises RuntimeError
                pipeline' = [pipeline EXCEPT !.pc = "raised"]
           ELSE IF Exists(pipeline.fs, md_path)
           THEN \* continue
                pipeline' = [pipeline EXCEPT !.i = @ + 1]
           ELSE pipeline' = [pipeline EXCEPT
                    !.fs = WriteText(@, md_path,
                                     render_post_markdown(p, summarize_paper(p))),
                    !.writes = Append(@, [run |-> pipeline.run, path |-> md_path]),
                    !.i = @ + 1]
    /\ UNCHANGED <<learnVars, lifVars, vizVars, appVars, mem, page>>

\* the loop is exhausted, main returns
PipelineEnd ==
    /\ pipeline.pc = "loop"
    /\ pipeline.i > Len(pipeline.items)
    /\ pipeline' = [pipeline EXCEPT !.pc = "done"]
    /\ UNCHANGED <<learnVars, lifVars, vizVars, appVars, mem, page>>

\* main is run again and fetches the same items
PipelineAgain ==
    /\ pipeline.pc \in {"done", "raised"}
    /\ pipeline.run < PipelineRuns
    /\ pipeline' = [pipeline EXCEPT !.pc = "loop", !.run = @ + 1, !.i = 1]
    /\ UNCHANGED <<learnVars, lifVars, vizVars, appVars, mem, page>>

NextPipeline == PipelineItem \/ PipelineEnd \/ PipelineAgain

SpecPipeline == InitPipeline /\ [][NextPipeline]_vars

\* ================================================================ claims
InCall == pc \in {"loop", "returned"}
NPre == pre_spikes.n_neurons
NPost == post_spikes.n_neurons
NSteps == pre_spikes.n_steps

InBounds(M) ==
    \A i \in DOMAIN M : \A j \in DOMAIN M[i] :
        par.w_min <= M[i][j] /\ M[i][j] <= par.w_max

AllSnapshotsInBounds == \A k \in 1..Len(W_history) : InBounds(W_history[k])

PreAllZero == \A s \in 1..NSteps : RowSum(pre_spikes.at[s]) = 0
PostSomeSpike == \E s \in 1..NSteps : RowSum(post_spikes.at[s]) > 0
Constant == \A k \in 1..Len(W_history) : W_history[k] = w_init

\* C1, as stated: for any w_init and w_min <= w_max, every entry of every
\* snapshot (index 0 included) lies in [w_min, w_max].
C1_AnyInitInBounds ==
    (InCall /\ par.w_min <= par.w_max) => AllSnapshotsInBounds

\* C1, amended: when every entry of w_init lies in [w_min, w_max], every
\* entry of every snapshot of the trajectory of each of the three rules lies
\* in [w_min, w_max].
C1_InBoundsFromInside ==
    (InCall /\ InBounds(w_init)) => AllSnapshotsInBounds

\* a run from inside the bounds in which some weight has grown to w_max
C1_Witness ==
    /\ pc = "returned"
    /\ InBounds(w_init)
    /\ NSteps = MaxSteps
    /\ \E i \in 1..NPre, j \in 1..NPost :
           /\ w_init[i][j] < par.w_max
           /\ W_history[NSteps][i][j] = par.w_max
           /\ W_history[NSteps + 1][i][j] = par.w_max

\* C2: the trajectory has one snapshot per executed step plus one, hence
\* n_steps + 1 at return (n_steps = 0 included), and its first snapshot is
\* w_init itself, neither decayed nor clamped.
C2_LengthAndSeed ==
    InCall =>
        /\ Len(W_history) = t + 1
        /\ (pc = "returned" => Len(W_history) = NSteps + 1)
        /\ W_history[1] = w_init

\* a returned run of at least one step whose w_init lies outside the bounds
C2_Witness ==
    /\ pc = "returned"
    /\ NSteps >= 1
    /\ par.w_min <= par.w_max
    /\ ~InBounds(w_init)
    /\ W_history[1] = w_init
    /\ W_history[NSteps + 1] # w_init

\* C3, as stated: with pre_spikes all-zero every snapshot equals w_init, for
\* any post_spikes, w_init and bounds, under each of the three rules.
C3_ConstantAnyInit ==
    (InCall /\ PreAllZero) => Constant

\* C3, amended: with pre_spikes all-zero the Hebbian and BCM trajectories are
\* constant for any w_init and bounds; the STDP trajectory is constant when
\* every entry of w_init lies in [w_min, w_max], and otherwise every snapshot
\* after the first equals clip(w_init).
C3_ConstantFromInside ==
    (InCall /\ PreAllZero) =>
        /\ par.rule \in {"Hebbian", "BCM"} => Constant
        /\ (par.rule = "STDP" /\ InBounds(w_init)) => Constant
        /\ par.rule = "STDP" =>
               \A k \in 2..Len(W_history) :
                   W_history[k] = ClipMatrix(w_init, par.w_min, par.w_max)

\* a returned Hebbian run with silent pre, spiking post and w_init outside
\* the bounds
C3_Witness ==
    /\ pc = "returned"
    /\ par.rule = "Hebbian"
    /\ NSteps = MaxSteps
    /\ PreAllZero
    /\ PostSomeSpike
    /\ par.w_min <= par.w_max
    /\ ~InBounds(w_init)

\* eta * a_plus * x for a trace x, as a stored weight
Potentiation(x) == par.eta * par.a_plus * x * CoefDen
Depression(x) == par.eta * par.a_minus * x * CoefDen

\* the scenario of C4 in a run of any length >= 4
C4_Scenario ==
    /\ par.rule = "STDP"
    /\ NPre = 1 /\ NPost = 1 /\ NSteps >= 4
    /\ pre_spikes = SingleSpike(NSteps, 0)
    /\ post_spikes = SingleSpike(NSteps, 3)
    /\ w_init = Uniform(1, 1, 0)
    /\ par.w_min = 0 /\ par.w_max = WOne
    /\ par.decay_plus = par.decay_minus

\* d^3 as a stored trace, d = decay_plus / DecayDen
C4_ThriceDecayed == (TraceOne * Pow(par.decay_plus, 3)) \div Pow(DecayDen, 3)

\* C4: one pre spike at step 0, one post spike at step 3, w_init = 0 in
\* [0, 1], equal time constants: the weight changes at step 3 only, by
\* eta * A_plus * d^3, and the final weight is that increment.
C4_SingleIncrement ==
    (pc = "returned" /\ C4_Scenario) =>
        /\ \A k \in 0..3 : W_history[k + 1][1][1] = 0
        /\ \A k \in 4..NSteps : W_history[k + 1][1][1] = Potentiation(C4_ThriceDecayed)
        /\ Potentiation(C4_ThriceDecayed) > 0

\* the scenario, run to the end of its 10 steps
C4_Witness ==
    /\ pc = "returned"
    /\ C4_Scenario
    /\ NSteps = 10
    /\ W[1][1] > 0

\* C5: in one STDP step, row i of a spiking pre neuron is depressed by the
\* post trace as decayed in this step and not yet incremented, then column j
\* of a spiking post neuron is potentiated by the pre trace decayed and
\* already incremented by this step's pre spikes; the snapshot is the clip
\* of that sum.  With both traces zero before the step, a coincident pair
\* (i, j) receives +eta*A_plus and no depression.
C5_StepChange(i, j) ==
    LET pre  == pre_spikes.at[t + 1]
        post == post_spikes.at[t + 1]
        dq   == Decay(post_trace, par.decay_minus)
        dp   == Decay(pre_trace, par.decay_plus)
    IN  W[i][j] - pre[i] * Depression(dq[j])
                + post[j] * Potentiation(dp[i] + pre[i] * TraceOne)

C5_CoincidentOrder ==
    [][StdpStep =>
        \A i \in 1..NPre, j \in 1..NPost :
            /\ W'[i][j] = Clip(C5_StepChange(i, j), par.w_min, par.w_max)
            /\ ( /\ pre_trace = Zeros(NPre) /\ post_trace = Zeros(NPost)
                 /\ pre_spikes.at[t + 1][i] = 1 /\ post_spikes.at[t + 1][j] = 1 )
               => W'[i][j] = Clip(W[i][j] + Potentiation(TraceOne),
                                  par.w_min, par.w_max)]_vars

\* after a coincident first step, away from the bounds: the weight went up
\* by eta*A_plus although A_minus > 0
C5_Witness ==
    /\ pc = "loop"
    /\ par.rule = "STDP"
    /\ t = 1
    /\ par.a_minus > 0
    /\ pre_spikes.at[1][1] = 1
    /\ post_spikes.at[1][1] = 1
    /\ W[1][1] = w_init[1][1] + Potentiation(TraceOne)
    /\ W[1][1] < par.w_max

\* ---------------------------------------------------------------- LIF
InLif == lpc \in {"loop", "returned"}
IsUi == lif.fn = "simulate_lif"
IsApi == lif.fn = "lif_simulate"
LifRest == IF IsUi THEN lif.v_rest ELSE lif.V_rest
LifReset == IF IsUi THEN lif.v_reset ELSE lif.V_reset
LifTh == IF IsUi THEN lif.v_th ELSE lif.V_th
\* the membrane time constant and the potential the leak settles at
LifTau == IF IsUi THEN lif.tau ELSE lif.R * lif.C
LifSteady == IF IsUi THEN lif.v_rest + lif.i_dc ELSE lif.V_rest + lif.R * lif.I
LifNoiseFree == IF IsUi THEN lif.noise_sigma = 0 ELSE TRUE

\* the steps at which a spike has been recorded (index 1 is step 0)
SpikeSteps ==
    IF IsUi THEN {i \in 1..lif.n : spikes[i] = 1}
    ELSE {i \in 1..lif.n : \E s \in 1..Len(spikes) : spikes[s] = lif_t[i]}

\* the Euler update of the stored value of the previous step
C7_Updated(noise) ==
    IF IsUi THEN UiEuler(v[kstep], lif, noise) ELSE ApiEuler(v[kstep], lif)

\* C7: in both integrators v[0] = V_rest with no spike at step 0; each
\* step k >= 1 Euler-updates v[k-1], records a spike at k exactly when the
\* updated value is >= V_th, and then stores V_reset at index k instead of
\* the crossing value.
C7_StepOrder ==
    /\ [](InLif => (v[1] = LifRest /\ 1 \notin SpikeSteps))
    /\ [][(UiLifStep \/ ApiLifStep) =>
            \E noise \in (IF IsUi THEN NoiseTerms(lif) ELSE {0}) :
                LET x == C7_Updated(noise)
                IN  /\ ((kstep + 1) \in SpikeSteps') <=> (x >= LifTh)
                    /\ v'[kstep + 1] = IF x >= LifTh THEN LifReset ELSE x
                    /\ IsApi => Len(spikes') = Len(spikes) + (IF x >= LifTh THEN 1 ELSE 0)
                    /\ \A i \in 1..kstep : v'[i] = v[i]]_vars

\* a crossing has been recorded and the trace holds V_reset there, below
\* the threshold
C7_Witness ==
    /\ lpc = "returned"
    /\ IsApi
    /\ \E i \in 2..lif.n :
           /\ i \in SpikeSteps
           /\ v[i] = lif.V_reset
           /\ lif.V_reset < lif.V_th
           /\ v[i - 1] < lif.V_th

\* C8, as stated: noise-free constant current with steady state strictly
\* below V_th gives zero spikes, for all accepted parameters.
C8_NoSpikeBelowThreshold ==
    (InLif /\ LifNoiseFree /\ LifSteady < LifTh) => SpikeSteps = {}

\* C8, amended: noise-free constant current with steady state strictly below
\* V_th gives zero spikes provided V_rest < V_th and dt <= tau (dt <= R*C).
C8_NoSpikeWhenStable ==
    (InLif /\ LifNoiseFree /\ LifSteady < LifTh /\ LifRest < LifTh /\ lif.dt <= LifTau)
        => SpikeSteps = {}

\* a full noise-free run driven upward, settling below the threshold
C8_Witness ==
    /\ lpc = "returned"
    /\ IsUi
    /\ LifNoiseFree /\ LifSteady < LifTh /\ LifRest < LifTh /\ lif.dt <= LifTau
    /\ lif.n >= MaxLifSteps
    /\ v[lif.n] > v[lif.n - 1]
    /\ v[lif.n - 1] > LifRest
    /\ SpikeSteps = {}

\* ------------------------------------------------- Run Simulation block
\* C6: two runs with identical parameters (the script takes no seed) give
\* identical spike matrices, initial weights and weight trajectories,
\* whatever was drawn from the generator before.
C6_SameParametersSameRun ==
    (last_run.ran /\ prev_run.ran /\ last_run.sidebar = prev_run.sidebar) =>
        /\ last_run.pre_spikes = prev_run.pre_spikes
        /\ last_run.post_spikes = prev_run.post_spikes
        /\ last_run.w_init = prev_run.w_init
        /\ last_run.W_history = prev_run.W_history

IsRegular == last_run.ran /\ last_run.sidebar.pattern.spike_mode = "Regular"
IsCorrelated == last_run.ran /\ last_run.sidebar.pattern.spike_mode = "Correlated"

\* number of spikes of neuron i of matrix m among steps lo..hi (0-based)
RECURSIVE SpikesBetween(_, _, _, _)
SpikesBetween(m, i, lo, hi) ==
    IF lo > hi THEN 0 ELSE m.at[lo + 1][i] + SpikesBetween(m, i, lo + 1, hi)

RECURSIVE TotalSpikes(_, _)
TotalSpikes(m, i) ==
    IF i > m.n_neurons THEN 0
    ELSE SpikesBetween(m, i, 0, m.n_steps - 1) + TotalSpikes(m, i + 1)

\* the regular pattern with period I >= 1 in matrix m
C9_Regular(m, I) ==
    /\ \A i \in 1..m.n_neurons :
        /\ \E offset \in 0..(I - 1) :
               \A x \in 0..(m.n_steps - 1) :
                   (m.at[x + 1][i] = 1) <=> (\E mult \in 0..m.n_steps : x = offset + mult * I)
        /\ \A x \in 0..(m.n_steps - 1) : m.at[x + 1][i] \in {0, 1}
        /\ \A start \in 0..(m.n_steps - I) : SpikesBetween(m, i, start, start + I - 1) = 1
        /\ SpikesBetween(m, i, 0, m.n_steps - 1) \in
               {m.n_steps \div I, m.n_steps \div I + 1}
    /\ TotalSpikes(m, 1) >= m.n_neurons * (m.n_steps \div I)
    /\ TotalSpikes(m, 1) <= m.n_neurons * (m.n_steps \div I) + m.n_neurons

\* C9: with interval_steps >= 1 each neuron of generate_regular_spikes
\* spikes exactly at offset + m*interval_steps below n_steps, offset in
\* [0, interval_steps); every window of interval_steps steps inside the run
\* holds exactly one spike of each neuron; the total is n_neurons *
\* floor(n_steps/interval_steps) plus at most one spike per neuron.
C9_RegularTrain ==
    IsRegular =>
        LET g == last_run.sidebar.pattern
            dt == last_run.sidebar.clock.dt
        IN  /\ StepCount(g.pre_interval, dt) >= 1
                => C9_Regular(last_run.pre_spikes, StepCount(g.pre_interval, dt))
            /\ StepCount(g.post_interval, dt) >= 1
                => C9_Regular(last_run.post_spikes, StepCount(g.post_interval, dt))

\* a regular run whose period does not divide the run: one neuron has the
\* extra spike, the other starts late
C9_Witness ==
    /\ IsRegular
    /\ last_run.sidebar.pattern.pre_interval = 3
    /\ last_run.pre_spikes.n_steps = 4
    /\ SpikesBetween(last_run.pre_spikes, 1, 0, 3) = 2
    /\ SpikesBetween(last_run.pre_spikes, 2, 0, 3) = 1
    /\ last_run.pre_spikes.at[1][2] = 0

\* the state of the generator after count draws
RECURSIVE RngAfter(_, _)
RngAfter(s, count) == IF count = 0 THEN s ELSE RngAfter(RngNext(s), count - 1)
\* the Bernoulli value of draw number idx (1-based) counted from state s
C10_DrawBit(s, idx, prob) == IF RngUniform(RngAfter(s, idx - 1)) < prob THEN 1 ELSE 0

\* the correlated pattern in matrix m generated from generator state s
C10_Correlated(m, dr, s, n, sb) ==
    LET c == sb.pattern.correlation
        prob == Prob(sb.pattern.base_rate, sb.clock.dt)
        steps == StepCount(sb.clock.simulation_time, sb.clock.dt)
    IN  /\ m.n_steps = steps /\ m.n_neurons = n
        /\ DOMAIN m.at = 1..steps
        /\ \A a \in 1..steps :
            /\ DOMAIN m.at[a] = 1..n
            \* one shared draw per step, drawn before all independent draws
            /\ DOMAIN dr.shared[a] = {1}
            /\ dr.shared[a][1] = C10_DrawBit(s, a, prob)
            /\ \A i \in 1..n :
                \* one independent draw per (step, neuron)
                /\ dr.independent[a][i] = C10_DrawBit(s, steps + (a - 1) * n + i, prob)
                /\ m.at[a][i] \in {0, 1}
                /\ (m.at[a][i] = 1) <=>
                       (2 * c * dr.shared[a][1]
                          + 2 * (UDen - c) * dr.independent[a][i] > UDen)

\* C10: generate_correlated_spikes emits 1 for (step k, neuron i) exactly
\* when correlation*shared_k + (1-correlation)*independent_{k,i} > 0.5,
\* shared_k one Bernoulli draw per step common to all neurons and
\* independent_{k,i} one per (step, neuron); values are 0 or 1 and the
\* shape is n_steps x n_neurons.
C10_CorrelatedMix ==
    IsCorrelated =>
        /\ C10_Correlated(last_run.pre_spikes, last_run.pre_draws, last_run.rng0,
                          last_run.sidebar.net.n_pre, last_run.sidebar)
        /\ C10_Correlated(last_run.post_spikes, last_run.post_draws, last_run.rng_post,
                          last_run.sidebar.net.n_post, last_run.sidebar)

\* a correlated run in which one step has the shared draw set and emits
\* different values for its two neurons
C10_Witness ==
    /\ IsCorrelated
    /\ \E a \in 1..last_run.pre_spikes.n_steps :
           /\ last_run.pre_draws.shared[a][1] = 1
           /\ last_run.pre_draws.independent[a][1] = 0
           /\ last_run.pre_draws.independent[a][2] = 1
           /\ last_run.pre_spikes.at[a][1] = 0
           /\ last_run.pre_spikes.at[a][2] = 1

\* ------------------------------------------------------ call boundary
\* the call has started its integration loop, or has returned a trace
LifLoopStarted == lpc \in {"loop", "returned"}

\* C11: a LIF integration requested with tau_m <= 0 (R*C <= 0) or dt <= 0
\* never starts its loop and returns no trace, in simulate_lif and in
\* lif_simulate alike.
C11_RejectedBeforeLoop ==
    (lpc # "idle" /\ (LifTau <= 0 \/ lif.dt <= 0)) => ~LifLoopStarted

\* ------------------------------------------------------- shapes
SameStepCount == pre_spikes.n_steps = post_spikes.n_steps

\* C12: a learning run whose pre_spikes and post_spikes differ in their
\* step counts is rejected at call entry: no loop iteration executes, no
\* error is raised after a step has been processed, and no trajectory is
\* returned.
C12_MismatchRejectedAtEntry ==
    (pc # "idle" /\ ~SameStepCount) =>
        /\ t = 0
        /\ Len(W_history) = 1
        /\ pc # "returned"

\* ------------------------------------------- hebb_step, the hebb tool
IsHebbStep == hebb.fn = "hebb_step"
IsHebbTool == hebb.fn = "hebb tool"
HebbInverted == hebb.req.w_min > hebb.req.w_max

\* C13: a weight update requested with w_min > w_max produces no weight:
\* hebb_step does not respond, and the hebb tool neither computes nor plots
\* a value clipped against the inverted interval.
C13_InvertedBoundsRejected ==
    /\ (IsHebbStep /\ HebbInverted) => hebb.pc # "responded"
    /\ (IsHebbTool /\ HebbInverted) => (Len(hebb.ws) = 1 /\ hebb.pc # "plotted")

\* w + eta*pre*post of the request
C17_Sum == hebb.req.w + hebb.req.eta * hebb.req.pre * hebb.req.post

\* C17: for every answered request with w_min <= w_max, w_next is
\* min(max(w + eta*pre*post, w_min), w_max); it lies in [w_min, w_max] and
\* equals w + eta*pre*post whenever that sum is inside the interval.
C17_ClippedSum ==
    (IsHebbStep /\ hebb.pc = "responded" /\ ~HebbInverted) =>
        /\ hebb.w_next = Min(Max(C17_Sum, hebb.req.w_min), hebb.req.w_max)
        /\ hebb.req.w_min <= hebb.w_next /\ hebb.w_next <= hebb.req.w_max
        /\ (hebb.req.w_min <= C17_Sum /\ C17_Sum <= hebb.req.w_max)
               => hebb.w_next = C17_Sum

\* an answered request whose sum, with fractional pre and post, moved the
\* weight and stayed inside the interval
C17_Witness ==
    /\ IsHebbStep
    /\ hebb.pc = "responded"
    /\ hebb.req.w_min < hebb.req.w
    /\ hebb.req.pre = 1 /\ hebb.req.post = 1
    /\ hebb.w_next > hebb.req.w
    /\ hebb.w_next < hebb.req.w_max

\* ------------------------------------------------- step count, time axis
LifDuration == IF IsUi THEN lif.T ELSE lif.t_max

\* C14: the integrators return arrays of exactly ceil(duration/dt) >= 1 time
\* steps for every accepted (duration, dt), a multiple of dt or not.
C14_CeilStepCount ==
    InLif =>
        /\ lif.n = CeilDiv(LifDuration, lif.dt)
        /\ lif.n >= 1
        /\ Len(lif_t) = lif.n
        /\ Len(v) = lif.n

\* the time k*dt of step k (index k + 1), as a stored time
StepTime(k) == k * lif.dt * TimeOne

\* the recorded spike times: steps of simulate_lif by their axis entry, list
\* entries of lif_simulate
SpikeTimes ==
    IF IsUi THEN {lif_t[i] : i \in {j \in 1..lif.n : spikes[j] = 1}}
    ELSE {spikes[s] : s \in 1..Len(spikes)}

\* C15: the returned time axis is t_k = k*dt, strictly increasing, and
\* every reported spike time is k*dt for a step k >= 1 of the run.
C15_TimeAxis ==
    InLif =>
        /\ \A k \in 0..(lif.n - 1) : lif_t[k + 1] = StepTime(k)
        /\ \A k \in 1..(lif.n - 1) : lif_t[k + 1] > lif_t[k]
        /\ \A x \in SpikeTimes : \E k \in 1..(lif.n - 1) : x = StepTime(k)

\* ------------------------------------------------ overlapping runs
\* the output of the Run Simulation block running alone from generator
\* state s0 with sidebar sb
RunAlone(s0, sb) ==
    LET a == GenerateSpikes(s0, sb, TRUE, sb.net.n_pre)
        b == GenerateSpikes(a.rng, sb, FALSE, sb.net.n_post)
        wi == RandomWeights(b.rng, sb.net.n_pre, sb.net.n_post)
    IN  [pre_spikes |-> a.spikes, post_spikes |-> b.spikes, w_init |-> wi.w,
         W_history |-> LearnRun(a.spikes, b.spikes, wi.w, sb.learning)]

\* C16: runs that overlap share no mutable state: the output of every
\* finished run equals the output it would produce running alone.
C16_RunsIsolated ==
    \A s \in DOMAIN sessions :
        sessions[s].pc = "done" =>
            LET alone == RunAlone(sessions[s].rng0, sessions[s].sidebar)
            IN  /\ sessions[s].pre_spikes = alone.pre_spikes
                /\ sessions[s].post_spikes = alone.post_spikes
                /\ sessions[s].w_init = alone.w_init
                /\ sessions[s].W_history = alone.W_history

\* ------------------------------------ playground payload and the API
\* C18: the payload the LIF tool displays is accepted by the LIFRequest
\* validation, and lif_simulate on it goes step for step with the local
\* loop: same time axis, same stored potential at every step done, same
\* spike times so far, hence the same three results at return.
C18_PayloadReplaysLocalRun ==
    playground.ran =>
        /\ LIFRequestValid(LIFRequestOf(playground.payload))
        /\ lpc # "rejected"
        /\ InLif =>
            /\ lif_t = playground.t
            /\ \A i \in 1..kstep : v[i] = playground.v[i]
            /\ Len(spikes) <= Len(playground.spikes)
            /\ spikes = SubSeq(playground.spikes, 1, Len(spikes))
        /\ lpc = "returned" =>
            /\ v = playground.v
            /\ spikes = playground.spikes

\* a replayed run of full length, t_max no multiple of dt, with a spike
C18_Witness ==
    /\ playground.ran
    /\ lpc = "returned"
    /\ lif.t_max % lif.dt # 0
    /\ lif.n = MaxLifSteps
    /\ Len(spikes) >= 1
    /\ v = playground.v
    /\ \E i \in 2..lif.n : v[i] # lif.V_rest /\ v[i] # lif.V_reset

\* ------------------------------------------------- traces of one spike
\* the step of the single spike of a sparse train, -1 when it has none
SpikeStep(m) ==
    IF \E st \in 1..m.n_steps : m.at[st][1] = 1
    THEN (CHOOSE st \in 1..m.n_steps : m.at[st][1] = 1) - 1
    ELSE 0 - 1

\* x * d^m, d = num / DecayDen
RECURSIVE DecayedBy(_, _, _)
DecayedBy(x, num, m) ==
    IF m = 0 THEN x ELSE DecayedBy((x * num) \div DecayDen, num, m - 1)

\* what a spike at step k contributes to its trace as read at step now
C19_Seen(k, now, num) ==
    IF k >= 0 /\ k <= now THEN DecayedBy(TraceOne, num, now - k) ELSE 0

C19_Sparse == par.rule = "STDP" /\ NPre = 1 /\ NPost = 1

\* C19: a single spike at step k contributes exactly 1 to its trace as read
\* later in step k and exactly d^m as read at step k+m: the trace left by
\* step s is d^(s-k), the potentiation of a post spike at step s reads the
\* pre trace d_plus^(s-k) (1 when s = k), and the depression of a pre spike
\* at step s reads the post trace d_minus^(s-k) of an earlier post spike
\* (nothing of a post spike of step s itself).
C19_DecayBeforeSpikes ==
    /\ []((InCall /\ C19_Sparse /\ t >= 1) =>
            /\ pre_trace[1] = C19_Seen(SpikeStep(pre_spikes), t - 1, par.decay_plus)
            /\ post_trace[1] = C19_Seen(SpikeStep(post_spikes), t - 1, par.decay_minus))
    /\ [][(StdpStep /\ C19_Sparse) =>
            LET kp  == SpikeStep(pre_spikes)
                kq  == SpikeStep(post_spikes)
                pot == IF kq = t
                       THEN Potentiation(C19_Seen(kp, t, par.decay_plus)) ELSE 0
                dep == IF kp = t /\ kq < t
                       THEN Depression(C19_Seen(kq, t, par.decay_minus)) ELSE 0
            IN  W'[1][1] = Clip(W[1][1] - dep + pot, par.w_min, par.w_max)]_vars

\* a post spike at step 1 and a pre spike at step 3: the weight went down
\* by eta * A_minus * d_minus^2
C19_Witness ==
    /\ pc = "returned"
    /\ C19_Sparse
    /\ SpikeStep(post_spikes) = 1
    /\ SpikeStep(pre_spikes) = 3
    /\ par.decay_minus = 1
    /\ W[1][1] = 0 - Depression(DecayedBy(TraceOne, par.decay_minus, 2))
    /\ W[1][1] < 0
    /\ W[1][1] > par.w_min

\* ------------------------------------------------ one clamp per step
\* the depression entry (i, j) receives in the step about to run: the row
\* of a spiking pre neuron goes down by eta * A_minus * post_trace, the
\* trace decayed in this step
C20_Depressions(i, j) ==
    IF pre_spikes.at[t + 1][i] > 0
    THEN Depression((post_trace[j] * par.decay_minus) \div DecayDen) ELSE 0

\* the potentiation entry (i, j) receives in the step about to run: the
\* column of a spiking post neuron goes up by eta * A_plus * pre_trace, the
\* trace decayed in this step and incremented by this step's pre spikes
C20_Potentiations(i, j) ==
    IF post_spikes.at[t + 1][j] > 0
    THEN Potentiation((pre_trace[i] * par.decay_plus) \div DecayDen
                      + (IF pre_spikes.at[t + 1][i] > 0 THEN TraceOne ELSE 0))
    ELSE 0

\* C20: a step of stdp_learning appends one snapshot, and snapshot k+1 is
\* the clip of snapshot k minus the step's depressions plus the step's
\* potentiations: the clamp is applied once, to the sum.
C20_OneClampPerStep ==
    [][StdpStep =>
        /\ Len(W_history') = Len(W_history) + 1
        /\ \A i \in 1..NPre, j \in 1..NPost :
               W_history'[t + 2][i][j] =
                   Clip(W_history[t + 1][i][j] - C20_Depressions(i, j)
                                               + C20_Potentiations(i, j),
                        par.w_min, par.w_max)]_vars

\* the second step of a run found the weight at w_min, depressed it below
\* w_min and potentiated it back inside: the snapshot is w_min - depression
\* + potentiation, not what a clamp between the two would leave
C20_Witness ==
    /\ pc = "loop"
    /\ par.rule = "STDP"
    /\ t = 2
    /\ par.w_min < par.w_max
    /\ pre_spikes.at[1][1] = 0 /\ post_spikes.at[1][1] = 1
    /\ pre_spikes.at[2][1] = 1 /\ post_spikes.at[2][1] = 1
    /\ W_history[2][1][1] = par.w_min
    /\ LET dep == Depression((TraceOne * par.decay_minus) \div DecayDen)
           pot == Potentiation(TraceOne)
       IN  /\ dep > 0
           /\ W_history[3][1][1] = par.w_min - dep + pot
           /\ W_history[3][1][1] < par.w_max
           /\ W_history[3][1][1] # Clip(par.w_min + pot, par.w_min, par.w_max)

\* ------------------------------------------------- the Hebbian increment
\* eta as a stored weight
C21_Eta == par.eta * TraceOne * CoefDen

\* C21: a step of hebbian_learning at which some pre neuron and some post
\* neuron spike adds eta, before the clamp, to exactly the entries (i, j)
\* whose pre neuron i and post neuron j both spiked at that step and 0 to the
\* others; every other step leaves the matrix as it was; the step reads the
\* matrix and the current rows only, no trace or average is kept.
C21_HebbIncrement ==
    [][HebbStep =>
        LET pre == pre_spikes.at[t + 1]
            post == post_spikes.at[t + 1]
        IN  /\ (RowSum(pre) > 0 /\ RowSum(post) > 0) =>
                   \A i \in 1..NPre, j \in 1..NPost :
                       W'[i][j] = Clip(W[i][j] + (IF pre[i] = 1 /\ post[j] = 1
                                                  THEN C21_Eta ELSE 0),
                                       par.w_min, par.w_max)
            /\ ~(RowSum(pre) > 0 /\ RowSum(post) > 0) => W' = W
            /\ W_history' = Append(W_history, W')
            /\ pre_trace = Zeros(NPre) /\ pre_trace' = pre_trace
            /\ post_trace = Zeros(NPost) /\ post_trace' = post_trace
            /\ post_activity = Zeros(NPost) /\ post_activity' = post_activity]_vars

\* a Hebbian step inside the bounds at which pre neuron 1 and post neuron 1
\* spiked and pre neuron 2 and post neuron 2 did not: entry (1, 1) went up
\* by eta, the three others stayed
C21_Witness ==
    /\ pc = "loop"
    /\ par.rule = "Hebbian"
    /\ t = 1
    /\ NPre = 2 /\ NPost = 2
    /\ pre_spikes.at[1] = <<1, 0>> /\ post_spikes.at[1] = <<1, 0>>
    /\ InBounds(w_init)
    /\ C21_Eta > 0
    /\ W[1][1] = w_init[1][1] + C21_Eta
    /\ W[1][1] < par.w_max
    /\ W[1][2] = w_init[1][2] /\ W[2][1] = w_init[2][1] /\ W[2][2] = w_init[2][2]

\* ----------------------------------------------------- the BCM increment
\* eta * (1 - theta) as a stored weight
C22_Delta == par.eta * (CoefDen - par.theta) * TraceOne

\* snapshot by snapshot, every entry moves in one direction only
C22_NonIncreasing ==
    \A k \in 1..(Len(W_history) - 1) : \A i \in 1..NPre, j \in 1..NPost :
        W_history[k + 1][i][j] <= W_history[k][i][j]
C22_NonDecreasing ==
    \A k \in 1..(Len(W_history) - 1) : \A i \in 1..NPre, j \in 1..NPost :
        W_history[k + 1][i][j] >= W_history[k][i][j]

\* C22: a step of bcm_learning changes the matrix only when some pre neuron
\* and some post neuron spike at it, and then entry (i, j) moves, before the
\* clamp, by eta * (1 - theta) when pre i and post j both spiked and by 0
\* otherwise.  From a w_init inside the bounds the trajectory is constant
\* for theta = 1, non-increasing for theta > 1 and non-decreasing for
\* theta < 1.
C22_BcmIncrement ==
    /\ [][BcmStep =>
            LET pre == pre_spikes.at[t + 1]
                post == post_spikes.at[t + 1]
            IN  /\ (RowSum(pre) > 0 /\ RowSum(post) > 0) =>
                       \A i \in 1..NPre, j \in 1..NPost :
                           W'[i][j] = Clip(W[i][j] + (IF pre[i] = 1 /\ post[j] = 1
                                                      THEN C22_Delta ELSE 0),
                                           par.w_min, par.w_max)
                /\ ~(RowSum(pre) > 0 /\ RowSum(post) > 0) => W' = W
                /\ W_history' = Append(W_history, W')]_vars
    /\ []((InCall /\ par.rule = "BCM" /\ InBounds(w_init)) =>
            /\ par.theta = CoefDen => Constant
            /\ par.theta > CoefDen => C22_NonIncreasing
            /\ par.theta < CoefDen => C22_NonDecreasing)

\* a returned BCM run with theta > 1 from inside the bounds: at its first
\* step pre 1 and post 1 spiked and post 2 did not, entry (1, 1) went down
\* by eta * (theta - 1) and entry (1, 2) stayed
C22_Witness ==
    /\ pc = "returned"
    /\ par.rule = "BCM"
    /\ par.theta > CoefDen
    /\ NSteps >= 1 /\ NPre >= 1 /\ NPost = 2
    /\ InBounds(w_init)
    /\ pre_spikes.at[1][1] = 1 /\ post_spikes.at[1] = <<1, 0>>
    /\ C22_Delta < 0
    /\ W_history[2][1][1] = w_init[1][1] + C22_Delta
    /\ W_history[2][1][1] > par.w_min
    /\ W_history[2][1][2] = w_init[1][2]

\* ------------------------------------------- the running average of BCM
\* the decay factors exp(-dt / tau_avg) a second run may have, over DecayDen
C23_Decays == 0..DecayDen

\* the second run: same spikes, w_init, eta, theta and bounds, another dt
C23_OtherRun(d) ==
    LearnRun(pre_spikes, post_spikes, w_init, [par EXCEPT !.decay_avg = d])

\* post_activity of the second run at its return
RECURSIVE C23_Activity(_, _, _)
C23_Activity(step, act, p) ==
    IF step = NSteps THEN act
    ELSE C23_Activity(step + 1, BcmActivity(act, post_spikes.at[step + 1], p), p)
C23_OtherActivity(d) ==
    C23_Activity(0, Zeros(NPost), [par EXCEPT !.decay_avg = d])

C25_SilentSoFar(spk, n) == \A s \in 1..t : spk.at[s][n] = 0

\* C25: in stdp_learning both traces are zero when the loop starts, every
\* trace entry is >= 0, the entry of a neuron is 0 as long as that neuron has
\* not spiked, and a step leaves in each entry its decayed value plus exactly
\* 1 if that neuron spiked at the step and plus 0 otherwise.
C25_Traces ==
    /\ []((InCall /\ par.rule = "STDP") =>
            /\ t = 0 => (pre_trace = Zeros(NPre) /\ post_trace = Zeros(NPost))
            /\ \A i \in 1..NPre :
                   /\ pre_trace[i] >= 0
                   /\ C25_SilentSoFar(pre_spikes, i) => pre_trace[i] = 0
            /\ \A j \in 1..NPost :
                   /\ post_trace[j] >= 0
                   /\ C25_SilentSoFar(post_spikes, j) => post_trace[j] = 0)
    /\ [][StdpStep =>
            /\ \A i \in 1..NPre :
                   pre_trace'[i] = (pre_trace[i] * par.decay_plus) \div DecayDen
                                   + (IF pre_spikes.at[t + 1][i] = 1 THEN TraceOne ELSE 0)
            /\ \A j \in 1..NPost :
                   post_trace'[j] = (post_trace[j] * par.decay_minus) \div DecayDen
                                    + (IF post_spikes.at[t + 1][j] = 1 THEN TraceOne ELSE 0)]_vars

\* two steps of STDP at which pre neuron 1 spiked both times and pre neuron
\* 2 never: trace 1 holds the decayed first spike plus 1, trace 2 is zero
C25_Witness ==
    /\ pc = "loop"
    /\ par.rule = "STDP"
    /\ t = 2
    /\ NPre = 2
    /\ pre_spikes.at[1] = <<1, 0>> /\ pre_spikes.at[2] = <<1, 0>>
    /\ pre_trace[1] = (TraceOne * par.decay_plus) \div DecayDen + TraceOne
    /\ pre_trace[1] > TraceOne
    /\ pre_trace[2] = 0
    /\ \E j \in 1..NPost : post_trace[j] = TraceOne

\* --------------------------------------------- which entries STDP moves
\* C28: in a run of stdp_learning whose w_init lies inside [w_min, w_max],
\* entry (i, j) of snapshot k+1 differs from entry (i, j) of snapshot k only
\* if pre neuron i or post neuron j spiked at step k; a step at which no
\* neuron spiked leaves the matrix as it was.
C28_OnlySpikingEntriesMove ==
    [][(StdpStep /\ InBounds(w_init)) =>
        LET pre == pre_spikes.at[t + 1]
            post == post_spikes.at[t + 1]
        IN  /\ W_history[t + 1] = W
            /\ W_history'[t + 2] = W'
            /\ \A i \in 1..NPre, j \in 1..NPost :
                   W_history'[t + 2][i][j] # W_history[t + 1][i][j]
                       => (pre[i] = 1 \/ post[j] = 1)
            /\ (RowSum(pre) = 0 /\ RowSum(post) = 0) => W' = W]_vars

\* a second step of STDP from inside the bounds at which pre neuron 1 spiked
\* alone, post neuron 1 having spiked the step before: row 1 was depressed
\* and row 2, whose traces are as large, was left alone
C28_Witness ==
    /\ pc = "loop"
    /\ par.rule = "STDP"
    /\ t = 2
    /\ NPre = 2 /\ NPost >= 1
    /\ InBounds(w_init)
    /\ post_spikes.at[1][1] = 1
    /\ pre_spikes.at[2] = <<1, 0>>
    /\ RowSum(post_spikes.at[2]) = 0
    /\ W_history[3][1][1] < W_history[2][1][1]
    /\ W_history[3][2] = W_history[2][2]

\* ------------------------------------- the correlated mix, case by case
\* what generate_correlated_spikes emits given the shared draw sh of the
\* step and the independent draw ind of the neuron, c the correlation over
\* UDen
C26_Emitted(c, sh, ind) ==
    IF 2 * c > UDen THEN sh
    ELSE IF 2 * c < UDen THEN ind
    ELSE IF sh = 1 /\ ind = 1 THEN 1 ELSE 0

C26_Degenerate(m, dr, c) ==
    /\ \A a \in 1..m.n_steps : \A i \in 1..m.n_neurons :
           m.at[a][i] = C26_Emitted(c, dr.shared[a][1], dr.independent[a][i])
    /\ 2 * c > UDen =>
           \A a \in 1..m.n_steps : \A i \in 1..m.n_neurons : m.at[a][i] = m.at[a][1]

\* C26: the spike generate_correlated_spikes emits for a neuron at a step is
\* the shared draw of the step when correlation > 0.5 (all columns of the
\* matrix are then identical), the neuron's independent draw when
\* correlation < 0.5, and 1 only when both draws are 1 when correlation is
\* exactly 0.5.
C26_MixDegenerates ==
    IsCorrelated =>
        /\ C26_Degenerate(last_run.pre_spikes, last_run.pre_draws,
                          last_run.sidebar.pattern.correlation)
        /\ C26_Degenerate(last_run.post_spikes, last_run.post_draws,
                          last_run.sidebar.pattern.correlation)

\* the draws of a run disagree at some step: shared 1, independent 0
C26_Disagree(r) ==
    \E a \in 1..r.pre_spikes.n_steps, i \in 1..r.pre_spikes.n_neurons :
        /\ r.pre_draws.shared[a][1] = 1
        /\ r.pre_draws.independent[a][i] = 0
        /\ r.pre_spikes.at[a][i] =
               (IF 2 * r.sidebar.pattern.correlation > UDen THEN 1 ELSE 0)

\* two correlated runs in a row whose draws disagree, the first with
\* correlation > 0.5 (the shared 1 is emitted), the second with correlation
\* 0.5 (nothing is emitted)
C26_Witness ==
    /\ IsCorrelated
    /\ prev_run.ran
    /\ prev_run.sidebar.pattern.spike_mode = "Correlated"
    /\ 2 * prev_run.sidebar.pattern.correlation > UDen
    /\ 2 * last_run.sidebar.pattern.correlation = UDen
    /\ C26_Disagree(prev_run)
    /\ C26_Disagree(last_run)

\* ------------------------------------------ recorded potentials below V_th
\* C27: when V_reset < V_th, every potential either integrator has recorded
\* at a step k >= 1 is strictly below V_th, whatever the current, the noise
\* and the step size; v[0] = V_rest is recorded as given.
C27_RecordedBelowThreshold ==
    (InLif /\ LifReset < LifTh) =>
        \A k \in 2..kstep : v[k] < LifTh

\* a returned run that started at V_rest >= V_th, spiked at a step whose
\* update landed exactly on V_th, and recorded the reset value there
C27_Witness ==
    /\ lpc = "returned"
    /\ LifReset < LifTh
    /\ LifRest >= LifTh
    /\ v[1] = LifRest
    /\ lif.n >= 3
    /\ \E k \in 2..(lif.n - 1) :
           /\ LifNoiseFree
           /\ (IF IsUi THEN UiEuler(v[k], lif, 0) ELSE ApiEuler(v[k], lif)) = LifTh
           /\ v[k + 1] = LifReset
           /\ k + 1 \in SpikeSteps

\* --------------------------------------- arguments and snapshots intact
C24_InMem == mem.pc \in {"loop", "returned"}

\* the arguments hold what the caller passed
C24_ArgumentsIntact ==
    /\ mem.heap[mem.pre_spikes] = mem.given[1]
    /\ mem.heap[mem.post_spikes] = mem.given[2]
    /\ mem.heap[mem.w_init] = mem.given[3]

\* every snapshot holds what it held when it was appended
C24_SnapshotsIntact ==
    /\ Len(mem.W_history) = mem.t + 1
    /\ \A k \in 1..Len(mem.W_history) : mem.heap[mem.W_history[k]] = mem.appended[k]

\* C24: during and after a call of stdp_learning, hebbian_learning or
\* bcm_learning the arrays passed as pre_spikes, post_spikes and w_init hold
\* what they held at the call; a step appends one snapshot and leaves the
\* earlier ones in place and unchanged, no in-place update of W reaching a
\* snapshot or w_init; the returned trajectory is the snapshots as appended.
C24_FrameAndAppendOnly ==
    /\ [](C24_InMem =>
            /\ C24_ArgumentsIntact
            /\ C24_SnapshotsIntact
            /\ mem.pc = "returned" => mem.result = mem.appended)
    /\ [][(mem.pc = "loop" /\ mem'.pc = "loop") =>
            /\ Len(mem'.W_history) = Len(mem.W_history) + 1
            /\ SubSeq(mem'.W_history, 1, Len(mem.W_history)) = mem.W_history]_vars

\* a returned Hebbian call whose first step was outside the gate and whose
\* second step added to W in place: the first two snapshots still equal
\* w_init, the third does not, and w_init is as passed
C24_Witness ==
    /\ mem.pc = "returned"
    /\ mem.par.rule = "Hebbian"
    /\ mem.n_steps = 2
    /\ mem.result[1] = mem.given[3]
    /\ mem.result[2] = mem.given[3]
    /\ mem.result[3] # mem.given[3]
    /\ mem.heap[mem.w_init] = mem.given[3]
    /\ mem.result = LearnRun([n_steps |-> 2, n_neurons |-> Len(mem.given[1][1]),
                              at |-> mem.given[1]],
                             [n_steps |-> 2, n_neurons |-> Len(mem.given[2][1]),
                              at |-> mem.given[2]],
                             mem.given[3], mem.par)

\* ------------------------------------------- the page shows what it ran
\* the stored arrays are those of the latest run
C29_StoredFromOneRun ==
    session_state.stored =>
        /\ last_run.ran
        /\ session_state.W_history = last_run.W_history
        /\ session_state.pre_spikes = last_run.pre_spikes
        /\ session_state.post_spikes = last_run.post_spikes
        /\ session_state.dt = last_run.sidebar.clock.dt
        /\ session_state.simulation_time = last_run.sidebar.clock.simulation_time

\* C29: after any sequence of sidebar changes and Run Simulation clicks the
\* stored W_history, pre_spikes and post_spikes come from one run, and the
\* n_pre, n_post, dt and simulation_time used to index, label and time the
\* display and the export are those of the run that produced the stored
\* arrays, so the display code runs to its end.
C29_DisplayMatchesRun ==
    (page.loaded /\ page.view.shown) =>
        /\ C29_StoredFromOneRun
        /\ page.view.n_pre = session_state.pre_spikes.n_neurons
        /\ page.view.n_post = session_state.post_spikes.n_neurons
        /\ page.view.n_pre = StoredRows(session_state)
        /\ page.view.n_post = StoredCols(session_state)
        /\ page.view.dt = session_state.dt
        /\ page.view.simulation_time = session_state.simulation_time
        /\ page.view.raised = "none"

\* ------------------------------------------ posts are written only once
C30_Running == pipeline.pc # "idle"

\* the paths written so far, in order
C30_Written == [k \in 1..Len(pipeline.writes) |-> pipeline.writes[k].path]

\* C30: main never writes a path that exists: a file found at <slug>.md is
\* left as it is and its item is skipped.  Over two runs of main with the
\* same items every file is written at most once, none that was there
\* before the first run, and the second run writes nothing.
C30_NeverOverwrites ==
    /\ [][C30_Running =>
            /\ \A q \in DOMAIN pipeline.fs :
                   q \in DOMAIN pipeline'.fs /\ pipeline'.fs[q] = pipeline.fs[q]
            /\ (PipelineItem /\ pipeline.mock_llm
                    /\ PathOf(SlugOf(pipeline.items[pipeline.i])) \in DOMAIN pipeline.fs) =>
                   /\ pipeline'.fs = pipeline.fs
                   /\ pipeline'.writes = pipeline.writes
                   /\ pipeline'.i = pipeline.i + 1]_vars
    /\ [](C30_Running =>
            /\ \A a, b \in 1..Len(pipeline.writes) :
                   C30_Written[a] = C30_Written[b] => a = b
            /\ \A a \in 1..Len(pipeline.writes) :
                   /\ pipeline.writes[a].run = 1
                   /\ C30_Written[a] \notin DOMAIN pipeline.fs0
            /\ DOMAIN pipeline.fs =
                   DOMAIN pipeline.fs0 \cup {C30_Written[a] : a \in 1..Len(pipeline.writes)})

\* two runs of main are over: of two items with different titles and one
\* slug the first was written in run 1 and the second never, and the post
\* still carries the first title
C30_Witness ==
    /\ pipeline.pc = "done"
    /\ pipeline.run = 2
    /\ pipeline.fs0 = NoPosts
    /\ Len(pipeline.items) = 2
    /\ pipeline.items[1].title # pipeline.items[2].title
    /\ SlugOf(pipeline.items[1]) = SlugOf(pipeline.items[2])
    /\ Len(pipeline.writes) = 1
    /\ pipeline.fs[PathOf(SlugOf(pipeline.items[2]))].body.title = pipeline.items[1].title

====
